---- MODULE Spec2Model ----
(***************************************************************************)
(* Live tracking view of the antu logistics dashboard.                     *)
(*                                                                         *)
(* Spec     : the TrackingMap component (components/shipments/             *)
(*            TrackingMap.jsx) with its two interval timers and its manual *)
(*            refresh button, driven by one of four parents: the three     *)
(*            host pages TrackShipment, DeliveryDetail and PublicTracking, *)
(*            and "Caller", an arbitrary parent that uses the documented   *)
(*            props interface (TrackingMap.jsx lines 8-43).                *)
(*                                                                         *)
(* SpecMap  : what one render of TrackingMap makes of a tracking snapshot:  *)
(*            the primitives buildMap puts on the Leaflet map and the     *)
(*            values of the controls panel, for every snapshot of a       *)
(*            bounded set.                                                 *)
(*                                                                         *)
(* SpecCost : one call of previewCost (components/shipments/               *)
(*            ShipmentForm.jsx) on arguments of a bounded set.             *)
(*                                                                         *)
(* SpecForm : the distance and cost previews of ShipmentForm while its     *)
(*            fields are edited, its steps are walked and it is submitted. *)
(*                                                                         *)
(* SpecDistance : haversine (ShipmentForm.jsx) on pairs of points.         *)
(*                                                                         *)
(* SpecLocation : the "Use My Location" request of LocationPicker          *)
(*            (components/Drivers/LocationPicker.jsx).                     *)
(*                                                                         *)
(* SpecPublic : PublicTracking (pages/Public/publicTracking.jsx) from its  *)
(*            first render, with or without a number in the URL.           *)
(*                                                                         *)
(* SpecRefresh : the 30 s interval of TrackingMap with its period          *)
(*            measured, under renders of the parent.                       *)
(*                                                                         *)
(* SpecBuild : buildMap of TrackingMap followed through its awaits, under  *)
(*            changes of trackingData and teardown.                        *)
(*                                                                         *)
(* SpecHost : the props the parents pass to TrackingMap and what the map   *)
(*            makes of them.                                               *)
(*                                                                         *)
(* SpecDriver : the driver dashboard (DriverDashboard): status, location   *)
(*            sharing and the automatic location updates.                  *)
(*                                                                         *)
(* In Spec time is counted in whole seconds (now) and an armed interval    *)
(* may fire at any moment: the periods of the two intervals are not        *)
(* measured, so every behaviour of the timed program is a behaviour of the *)
(* model.  SpecRefresh measures the period of the 30 s interval.           *)
(* Every action is one macrotask of the event loop: the handler that runs, *)
(* the state updates it makes, and the React render (with its effect       *)
(* cleanups and effects) that follows them.                                *)
(***************************************************************************)
EXTENDS Integers, Sequences, FiniteSets, TLC

\* ------------------------------------------------------------------ bounds
\* Seconds of wall-clock time a behaviour may span.
MaxNow == 1

\* Calls of a host function (fetches) a behaviour may start after the page
\* has mounted.
MaxFetches == 2

\* Longest route (number of GPS samples) of a snapshot.
MaxRoute == 2

\* Time a behaviour of the timed refresh interval may span, in units of
\* ten seconds.
MaxClock == 7

\* Calls of buildMap that may be suspended at the same time.
MaxPending == 3

\* Device-position requests of the driver dashboard that may be in flight at
\* the same time.
MaxRequests == 2

\* ------------------------------------------------------------------ values
Null == "null"

\* useState(null) for trackingData: no snapshot held.
NoSnapshot == 0

Hosts == {"Caller", "TrackShipment", "DeliveryDetail", "PublicTracking"}

\* ShipmentStatus as the hosts read it (cancelled behaves as delivered in
\* every condition modelled here).
Statuses == {"pending", "assigned", "in_transit", "delivered"}

\* What the tracking-number input of PublicTracking may hold.
TrackingNumbers == {"", "ANTU-1"}

VARIABLES
    host,           \* which parent renders the TrackingMap (fixed)
    hostMounted,    \* the parent page is mounted
    now,            \* Date.now(), in seconds
    \* ---- state of the host page (useState cells)
    shipment,       \* shipment / delivery: Null or the status it carries
    trackingData,   \* trackingData: NoSnapshot or the snapshot, named by the
                    \* number of the call that fetched it
    loading,
    error,          \* "" or a message tag
    trackingNumber, \* PublicTracking only
    hostTimer,      \* TrackShipment's own 30 s interval is armed
    calls,          \* host async functions suspended at an await
    started,        \* number of host async calls started so far
    \* ---- state of the TrackingMap instance
    tmMounted,
    autoRefresh,    \* prop
    hasOnRefresh,   \* prop onRefresh is supplied
    tickerTimer,    \* the 1 s interval is armed
    refreshTimer,   \* the 30 s interval is armed
    lastRefresh,    \* lastRefreshRef.current, in seconds
    ticker,         \* state cell ticker
    \* ---- what the last macrotask was
    ev,
    \* ---- one render of TrackingMap (SpecMap)
    snap,           \* prop trackingData: <<>> or <<snapshot>>
    phase,          \* "new", "rendered" (JSX evaluated), "built" (buildMap ran)
    panel,          \* the values the controls panel shows
    drawn,          \* the primitives added to the map, in order
    view,           \* the bounds the map was fitted to: <<>> or <<bounds>>
    \* ---- the shipment form (SpecCost, SpecForm)
    args,           \* the arguments of a call of previewCost: <<>> or <<d, w>>
    quote,          \* what that call returned: <<>> or <<value>>
    form,           \* state cell form of ShipmentForm: <<>> or <<fields>>
    step,           \* state cell step of ShipmentForm (0: no form)
    distKm,         \* const distKm of the last render of ShipmentForm
    costKsh,        \* const costKsh of the last render of ShipmentForm
    errors,         \* state cell errors of ShipmentForm: the keys it holds
    sent,           \* what the last handler passed to onSubmit: <<>> or
                    \* <<payload>>
    \* ---- LocationPicker (SpecLocation)
    geolocation,    \* navigator.geolocation exists (fixed)
    gettingLocation,  \* state cell gettingLocation
    locationError,  \* state cell locationError: Null or the message
    selectedLocation, \* state cell selectedLocation, by where it came from
    geoRequest,     \* a getCurrentPosition request is in flight
    reasons,        \* the message each failure cause has produced so far
    \* ---- the opening of PublicTracking (SpecPublic)
    search,         \* the number parameter of window.location.search:
                    \* <<>> (absent) or <<text>>
    page,           \* "idle", "opening" (before the first render), "mounted",
                    \* "failed" (the first render threw)
    \* ---- the 30 s interval of TrackingMap, timed (SpecRefresh)
    clock,          \* the time, in units of ten seconds
    armedAt,        \* when the interval was set, or last fired
    lastTick,       \* when the last refresh tick fired, or auto-refresh was
                    \* activated
    \* ---- the asynchronous buildMap of TrackingMap (SpecBuild)
    builds,         \* the calls of buildMap suspended at their awaits, oldest
                    \* first: the trackingData each one closed over
    container,      \* mapDivRef.current is set (the map's div is in the DOM)
    leafletMap,     \* leafletMap.current: <<>> or <<the map instance>>
    instances,      \* the map instances created and not removed
    \* ---- the driver dashboard (SpecDriver)
    deviceGeo,      \* navigator.geolocation exists (fixed)
    serverStatus,   \* the driver's status as the backend holds it
    driverStatus,   \* state cell status
    locationSharing,  \* state cell locationSharing
    driverData,     \* state cell driverData is set
    fetchPc,        \* fetchDashboardData: "me", "rest" (the await it is
                    \* suspended at) or "done"
    statusCall,     \* handleStatusChange suspended at its PUT: <<>> or
                    \* <<newStatus>>
    updatingStatus, \* state cell updatingStatus
    shareTimer,     \* the 2 min interval of the auto-update effect is set
    positionRequests, \* getCurrentPosition requests of updateLocation in flight
    autoPut         \* the PUT /drivers/me/location the last step sent from
                    \* updateLocation: <<>> or <<the state cells then>>

hostVars == <<shipment, trackingData, loading, error, trackingNumber>>
tmVars   == <<tmMounted, autoRefresh, hasOnRefresh, tickerTimer, refreshTimer,
              lastRefresh, ticker>>
schedVars == <<host, hostMounted, now, shipment, trackingData, loading, error,
               trackingNumber, hostTimer, calls, started, tmMounted, autoRefresh,
               hasOnRefresh, tickerTimer, refreshTimer, lastRefresh, ticker, ev>>
mapVars == <<snap, phase, panel, drawn, view>>
formVars == <<args, quote, form, step, distKm, costKsh, errors, sent>>
locVars == <<geolocation, gettingLocation, locationError, selectedLocation,
             geoRequest, reasons>>
\* The variables of the components added after the tracking view and the form.
pageVars == <<search, page>>
timedVars == <<clock, armedAt, lastTick>>
buildVars == <<builds, container, leafletMap, instances>>
driverVars == <<deviceGeo, serverStatus, driverStatus, locationSharing,
                driverData, fetchPc, statusCall, updatingStatus, shareTimer,
                positionRequests, autoPut>>
extraVars == <<locVars, pageVars, timedVars, buildVars, driverVars>>
vars == <<schedVars, mapVars, formVars, extraVars>>

\* A suspended call of a host function: its number (in order of start), the
\* function, the request it awaits, who started it, and what the page showed
\* when it started.
Call(id, fn, pc, by, sh, td) ==
    [id |-> id, fn |-> fn, pc |-> pc, by |-> by, shown |-> [sh |-> sh, td |-> td]]
NoCall == Call(0, "none", "none", "none", Null, NoSnapshot)

\* The event record: the kind of macrotask, the host call it started or
\* resumed (NoCall when none), and the snapshot shown before it.
Ev(kind, call) == [kind |-> kind, call |-> call, prev |-> trackingData]
Quiet(kind) == Ev(kind, NoCall)

\* ------------------------------------------------- TrackingMap: the effects
\* useEffect(() => { const id = setInterval(...1000); ... }, [])
TickerEffect == TRUE

\* Mutant: the ticker effect returns no cleanup.
TickerCleanupMissing(armed) == armed

\* return () => clearInterval(id)   (ticker effect)
TickerCleanup(armed) == FALSE

\* Mutant: the effect does not test autoRefresh.
RefreshEffectUnguarded(auto, cb) == cb

\* if (!autoRefresh || !onRefresh) return; const id = setInterval(...30000)
RefreshEffect(auto, cb) == auto /\ cb

\* Mutant: the auto-refresh effect returns no cleanup.
RefreshCleanupMissing(armed) == armed

\* return () => clearInterval(id)   (auto-refresh effect)
RefreshCleanup(armed) == FALSE

\* useRef(new Date()) / the handlers' lastRefreshRef.current = new Date()
NewDate(t) == t

\* Mutant: the interval handler leaves the baseline alone.
TickBaselineKept(t, last) == last

\* Interval handler: lastRefreshRef.current = new Date()
TickBaseline(t, last) == NewDate(t)

\* Mutant: the button handler leaves the baseline alone.
ClickBaselineKept(t, last) == last

\* Button handler: lastRefreshRef.current = new Date()
ClickBaseline(t, last) == NewDate(t)

\* Math.floor((Date.now() - lastRefreshRef.current) / 1000)
Staleness(t, last) == t - last

\* The render of the parent followed by React's commit: v is what the parent
\* renders ([map, auto, cb]), lr and tk are lastRefreshRef and ticker as the
\* handler left them, fresh tells whether onRefresh is a new function.
Commit(v, lr, tk, fresh) ==
    /\ tmMounted' = v.map
    /\ autoRefresh' = (v.map /\ v.auto)
    /\ hasOnRefresh' = (v.map /\ v.cb)
    /\ tickerTimer' =
         IF v.map
         THEN (IF tmMounted THEN tickerTimer ELSE TickerEffect)
         ELSE TickerCleanup(tickerTimer)
    /\ refreshTimer' =
         IF v.map
         THEN (IF tmMounted
               THEN (IF fresh \/ v.auto # autoRefresh \/ v.cb # hasOnRefresh
                     THEN RefreshCleanup(refreshTimer) \/ RefreshEffect(v.auto, v.cb)
                     ELSE refreshTimer)
               ELSE RefreshEffect(v.auto, v.cb))
         ELSE RefreshCleanup(refreshTimer)
    /\ lastRefresh' = IF v.map THEN (IF tmMounted THEN lr ELSE NewDate(now)) ELSE 0
    /\ ticker' = IF v.map THEN (IF tmMounted THEN tk ELSE 0) ELSE 0

\* ------------------------------------------------------- what a host renders
\* The JSX of the parent: whether it renders <TrackingMap>, and with which
\* autoRefresh and onRefresh.  (Caller keeps the props it chose.)
View(h, hm, sh, ld, er) ==
    [map  |-> /\ hm
              /\ CASE h = "TrackShipment"  -> ~ld /\ ~(er # "" \/ sh = Null)
                   [] h = "DeliveryDetail" -> ~ld /\ ~(er # "" /\ sh = Null)
                   [] h = "PublicTracking" -> sh # Null /\ sh # "pending"
                   [] OTHER                -> tmMounted,
     auto |-> IF h = "Caller" THEN autoRefresh ELSE sh = "in_transit",
     cb   |-> IF h = "Caller" THEN hasOnRefresh ELSE TRUE]

\* TrackShipment's own effect: an interval while the shipment is active.
HostTimerEffect(h, hm, sh) ==
    h = "TrackShipment" /\ hm /\ sh \in {"assigned", "in_transit"}

\* The function a host passes as onRefresh.
RefreshFn(h) ==
    CASE h = "TrackShipment"  -> "fetchTrackingData"
      [] h = "DeliveryDetail" -> "fetchDeliveryData"
      [] h = "PublicTracking" -> "handleTrack"
      [] OTHER                -> "load"

\* The first request a host function awaits.
FirstAwait(fn) == IF fn \in {"fetchTrackingData", "load"} THEN "route" ELSE "shipment"

\* Host functions that bracket their body with setLoading(true) ... finally
\* setLoading(false).
SetsLoading(fn) == fn \in {"fetchShipmentData", "fetchDeliveryData", "handleTrack"}

\* handleTrack clears the page before it fetches.
ClearsFirst(fn) == fn = "handleTrack"

NewCall(fn, by) == Call(started + 1, fn, FirstAwait(fn), by, shipment, trackingData)

\* A host function runs up to its first await.  handleTrack returns early,
\* with an error, when the tracking number is blank.
Begin(fn, by) ==
    IF fn = "handleTrack" /\ trackingNumber = ""
    THEN /\ error' = "empty"
         /\ UNCHANGED <<shipment, trackingData, loading, calls, started>>
    ELSE /\ calls' = calls \cup {NewCall(fn, by)}
         /\ started' = started + 1
         /\ loading' = IF SetsLoading(fn) THEN TRUE ELSE loading
         /\ error' = IF SetsLoading(fn) THEN "" ELSE error
         /\ shipment' = IF ClearsFirst(fn) THEN Null ELSE shipment
         /\ trackingData' = IF ClearsFirst(fn) THEN NoSnapshot ELSE trackingData

\* The fetch that a page starts when it mounts is not counted in MaxFetches.
Cap == MaxFetches + (IF host = "PublicTracking" THEN 0 ELSE 1)

\* The call the handler began, NoCall when it began none.
Begun(fn, by) == IF started' # started THEN NewCall(fn, by) ELSE NoCall

\* Mutant: a response older than the snapshot held is dropped.
SetTrackingDataNewest(c, held) == IF c.id > held THEN c.id ELSE held

\* setTrackingData(trackingResponse.data): the response of call c replaces the
\* snapshot held.
SetTrackingData(c, held) == c.id

\* The render and commit that follow a handler which may have touched the
\* host's state.
Rerender(lr, tk) ==
    /\ hostTimer' = HostTimerEffect(host, hostMounted', shipment')
    /\ Commit(View(host, hostMounted', shipment', loading', error'), lr, tk,
              host # "Caller")

\* ---------------------------------------------------------------- Init
\* No snapshot is passed as trackingData (as in the three host pages, which
\* pass origin, destination, currentLocation and route instead).
\* No LocationPicker is on the page.
LocIdle ==
    /\ geolocation = FALSE
    /\ gettingLocation = FALSE
    /\ locationError = "null"
    /\ selectedLocation = "none"
    /\ geoRequest = FALSE
    /\ reasons = {}

\* No page is being opened from a URL.
PageIdle ==
    /\ search = <<>>
    /\ page = "idle"

\* The clock of the timed interval stands still.
TimedIdle ==
    /\ clock = 0
    /\ armedAt = 0
    /\ lastTick = 0

\* No call of buildMap is followed through its awaits.
BuildIdle ==
    /\ builds = <<>>
    /\ container = FALSE
    /\ leafletMap = <<>>
    /\ instances = {}

\* No driver dashboard is on the page.
DriverIdle ==
    /\ deviceGeo = FALSE
    /\ serverStatus = "none"
    /\ driverStatus = "none"
    /\ locationSharing = FALSE
    /\ driverData = FALSE
    /\ fetchPc = "done"
    /\ statusCall = <<>>
    /\ updatingStatus = FALSE
    /\ shareTimer = FALSE
    /\ positionRequests = 0
    /\ autoPut = <<>>

ExtraIdle == LocIdle /\ PageIdle /\ TimedIdle /\ BuildIdle /\ DriverIdle

\* No ShipmentForm is on the page.
FormIdle ==
    /\ args = <<>>
    /\ quote = <<>>
    /\ form = <<>>
    /\ step = 0
    /\ distKm = <<>>
    /\ costKsh = <<>>
    /\ errors = {}
    /\ sent = <<>>

MapIdle ==
    /\ snap = <<>>
    /\ phase = "new"
    /\ panel = [speed |-> <<>>, ping |-> <<>>, timeline |-> <<>>, style |-> <<>>]
    /\ drawn = <<>>
    /\ view = <<>>

Init ==
    /\ MapIdle
    /\ FormIdle
    /\ ExtraIdle
    /\ host \in Hosts
    /\ hostMounted = TRUE
    /\ now = 0
    /\ shipment = Null
    /\ trackingData = NoSnapshot
    /\ error = ""
    /\ trackingNumber = ""
    /\ hostTimer = FALSE
    /\ loading = (host \in {"TrackShipment", "DeliveryDetail"})
    /\ started = IF host = "PublicTracking" THEN 0 ELSE 1
    /\ calls = CASE host = "TrackShipment" ->
                      {Call(1, "fetchShipmentData", "shipment", "mount", Null, NoSnapshot)}
                 [] host = "DeliveryDetail" ->
                      {Call(1, "fetchDeliveryData", "shipment", "mount", Null, NoSnapshot)}
                 [] host = "Caller" ->
                      {Call(1, "load", "route", "mount", Null, NoSnapshot)}
                 [] OTHER -> {}
    /\ tmMounted = (host = "Caller")
    /\ autoRefresh \in (IF host = "Caller" THEN BOOLEAN ELSE {FALSE})
    /\ hasOnRefresh \in (IF host = "Caller" THEN BOOLEAN ELSE {FALSE})
    /\ tickerTimer = (tmMounted /\ TickerEffect)
    /\ refreshTimer = (tmMounted /\ RefreshEffect(autoRefresh, hasOnRefresh))
    /\ lastRefresh = NewDate(0)
    /\ ticker = 0
    /\ ev = [kind |-> "init", call |-> NoCall, prev |-> NoSnapshot]

\* ------------------------------------------------------ TrackingMap actions
\* A second passes.
Advance ==
    /\ UNCHANGED <<mapVars, formVars, extraVars>>
    /\ now < MaxNow
    /\ now' = now + 1
    /\ ev' = Quiet("advance")
    /\ UNCHANGED <<host, hostMounted, hostVars, hostTimer, calls, started, tmVars>>

\* The 1 s interval fires: setTicker(...).
TickerFire ==
    /\ UNCHANGED <<mapVars, formVars, extraVars>>
    /\ tickerTimer
    /\ ticker' = Staleness(now, lastRefresh)
    /\ ev' = Quiet("ticker")
    /\ UNCHANGED <<host, hostMounted, now, hostVars, hostTimer, calls, started,
                   tmMounted, autoRefresh, hasOnRefresh, tickerTimer,
                   refreshTimer, lastRefresh>>

\* The 30 s interval fires: onRefresh(); lastRefreshRef.current = new Date().
RefreshTick ==
    /\ UNCHANGED <<mapVars, formVars, extraVars>>
    /\ UNCHANGED <<host, hostMounted, now, trackingNumber>>
    /\ refreshTimer
    /\ started < Cap
    /\ Begin(RefreshFn(host), "tick")
    /\ Rerender(TickBaseline(now, lastRefresh), ticker)
    /\ ev' = Ev("tick", Begun(RefreshFn(host), "tick"))

\* The refresh button (rendered when onRefresh is supplied) is clicked:
\* onRefresh(); lastRefreshRef.current = new Date().
ManualRefresh ==
    /\ UNCHANGED <<mapVars, formVars, extraVars>>
    /\ UNCHANGED <<host, hostMounted, now, trackingNumber>>
    /\ tmMounted
    /\ hasOnRefresh
    /\ started < Cap
    /\ Begin(RefreshFn(host), "manual")
    /\ Rerender(ClickBaseline(now, lastRefresh), ticker)
    /\ ev' = Ev("manual", Begun(RefreshFn(host), "manual"))

\* ------------------------------------------------------------ host actions
\* TrackShipment's own interval fires: fetchTrackingData().
HostTick ==
    /\ UNCHANGED <<mapVars, formVars, extraVars>>
    /\ UNCHANGED <<host, hostMounted, now, trackingNumber>>
    /\ hostTimer
    /\ started < Cap
    /\ Begin("fetchTrackingData", "hostTick")
    /\ Rerender(lastRefresh, ticker)
    /\ ev' = Ev("hostTick", Begun("fetchTrackingData", "hostTick"))

\* PublicTracking: the form is submitted (its button is disabled while
\* loading): handleTrack().
SubmitTrack ==
    /\ UNCHANGED <<mapVars, formVars, extraVars>>
    /\ UNCHANGED <<host, hostMounted, now, trackingNumber>>
    /\ host = "PublicTracking"
    /\ hostMounted
    /\ ~loading
    /\ started < Cap
    /\ Begin("handleTrack", "submit")
    /\ Rerender(lastRefresh, ticker)
    /\ ev' = Ev("submit", Begun("handleTrack", "submit"))

\* PublicTracking: the input (disabled while loading) is edited.
EditTrackingNumber ==
    /\ UNCHANGED <<mapVars, formVars, extraVars>>
    /\ UNCHANGED <<host, hostMounted, now, shipment, trackingData, loading,
                   error, calls, started>>
    /\ host = "PublicTracking"
    /\ hostMounted
    /\ ~loading
    /\ \E n \in TrackingNumbers \ {trackingNumber} : trackingNumber' = n
    /\ Rerender(lastRefresh, ticker)
    /\ ev' = Quiet("edit")

\* The user navigates away from the page: it unmounts, and with it the map.
Leave ==
    /\ UNCHANGED <<mapVars, formVars, extraVars>>
    /\ UNCHANGED <<host, now, hostVars, calls, started>>
    /\ hostMounted
    /\ hostMounted' = FALSE
    /\ Rerender(lastRefresh, ticker)
    /\ ev' = Quiet("leave")

\* The request a suspended host call awaits is fulfilled.  The shipment
\* request yields a shipment with some status (or, to handleTrack, no data);
\* the route request yields a snapshot.  State setters of an unmounted page
\* do nothing.
Resolve(c) ==
    /\ UNCHANGED <<mapVars, formVars, extraVars>>
    /\ UNCHANGED <<host, hostMounted, now, trackingNumber, started>>
    /\ \/ /\ c.pc = "shipment"
          /\ \E d \in Statuses \cup (IF c.fn = "handleTrack" THEN {Null} ELSE {}) :
               IF d = Null
               THEN /\ calls' = calls \ {c}
                    /\ error' = IF hostMounted THEN "notfound" ELSE error
                    /\ loading' = IF hostMounted THEN FALSE ELSE loading
                    /\ UNCHANGED shipment
               ELSE /\ calls' = (calls \ {c}) \cup {[c EXCEPT !.pc = "route"]}
                    /\ shipment' = IF hostMounted THEN d ELSE shipment
                    /\ UNCHANGED <<error, loading>>
          /\ UNCHANGED trackingData
       \/ /\ c.pc = "route"
          /\ calls' = calls \ {c}
          /\ trackingData' = IF hostMounted THEN SetTrackingData(c, trackingData) ELSE trackingData
          /\ loading' = IF hostMounted /\ SetsLoading(c.fn) THEN FALSE ELSE loading
          /\ UNCHANGED <<shipment, error>>
    /\ Rerender(lastRefresh, ticker)
    /\ ev' = Ev("resolve", c)

\* The request a suspended host call awaits is rejected.  Every host function
\* but Caller's load catches it.
Reject(c) ==
    /\ UNCHANGED <<mapVars, formVars, extraVars>>
    /\ UNCHANGED <<host, hostMounted, now, trackingNumber, started>>
    /\ calls' = calls \ {c}
    /\ \/ /\ c.pc = "shipment"
          /\ \E msg \in {"notfound", "failed"} :
               error' = IF hostMounted THEN msg ELSE error
       \/ /\ c.pc = "route"
          /\ UNCHANGED error
    /\ loading' = IF hostMounted /\ SetsLoading(c.fn) THEN FALSE ELSE loading
    /\ UNCHANGED <<shipment, trackingData>>
    /\ Rerender(lastRefresh, ticker)
    /\ ev' = Ev("reject", c)

\* Caller re-renders the mounted map with props of its choosing.
CallerSetProps ==
    /\ UNCHANGED <<mapVars, formVars, extraVars>>
    /\ host = "Caller"
    /\ hostMounted
    /\ tmMounted
    /\ \E auto \in BOOLEAN, cb \in BOOLEAN, fresh \in BOOLEAN :
         /\ auto # autoRefresh \/ cb # hasOnRefresh \/ (fresh /\ cb)
         /\ Commit([map |-> TRUE, auto |-> auto, cb |-> cb], lastRefresh, ticker, fresh)
    /\ ev' = Quiet(IF autoRefresh /\ ~autoRefresh' THEN "autoOff" ELSE "props")
    /\ UNCHANGED <<host, hostMounted, now, hostVars, hostTimer, calls, started>>

\* Caller stops rendering the map.
CallerUnmountMap ==
    /\ UNCHANGED <<mapVars, formVars, extraVars>>
    /\ host = "Caller"
    /\ hostMounted
    /\ tmMounted
    /\ Commit([map |-> FALSE, auto |-> FALSE, cb |-> FALSE], lastRefresh, ticker, FALSE)
    /\ ev' = Quiet("unmount")
    /\ UNCHANGED <<host, hostMounted, now, hostVars, hostTimer, calls, started>>

\* Caller renders the map again: a new instance.
CallerMountMap ==
    /\ UNCHANGED <<mapVars, formVars, extraVars>>
    /\ host = "Caller"
    /\ hostMounted
    /\ ~tmMounted
    /\ \E auto \in BOOLEAN, cb \in BOOLEAN :
         Commit([map |-> TRUE, auto |-> auto, cb |-> cb], lastRefresh, ticker, TRUE)
    /\ ev' = Quiet("mount")
    /\ UNCHANGED <<host, hostMounted, now, hostVars, hostTimer, calls, started>>

Next ==
    \/ Advance
    \/ TickerFire
    \/ RefreshTick
    \/ ManualRefresh
    \/ HostTick
    \/ SubmitTrack
    \/ EditTrackingNumber
    \/ Leave
    \/ \E c \in calls : Resolve(c)
    \/ \E c \in calls : Reject(c)
    \/ CallerSetProps
    \/ CallerUnmountMap
    \/ CallerMountMap

Spec == Init /\ [][Next]_vars

\* ======================================================================
\* SpecMap: one render of TrackingMap on a snapshot
\* ======================================================================
\* null / undefined, and a value that is present.
None == <<>>
Some(x) == <<x>>

\* Latitudes and longitudes of the points of a snapshot, in tenths of a
\* degree (no point of the data is (0, 0)).
Lats == {0, 1}
Lngs == {36}

\* speed of a GPS sample in tenths of km/h: absent, 0, 0.4 and 40.5 km/h.
SpeedValues == {None, Some(0), Some(4), Some(405)}

\* { lat, lng, timestamp, speed } of route[] and current_location.
SamplesOver(lats, lngs, speeds, stamps) ==
    [lat : lats, lng : lngs, speed : speeds, timestamp : stamps]

\* { lat, lng } of origin and destination; the whole object or its lat may
\* be missing.
EndpointsOver(lats, lngs) == {Some(e) : e \in [lat : lats, lng : lngs]}

RoutesOver(samples) == UNION {[1..n -> samples] : n \in 0..MaxRoute}

\* trackingData: { status, origin, destination, route, current_location,
\*                 created_at, assigned_at, picked_up_at, delivered_at }.
SnapshotsOver(endpoints, samples, currents, statuses, stamps) ==
    [origin : endpoints, destination : endpoints,
     route : RoutesOver(samples), current_location : currents,
     status : statuses,
     created_at : stamps, assigned_at : stamps,
     picked_up_at : stamps, delivered_at : stamps]

\* Snapshots that differ in their speeds; lat = 0 is an endpoint of them.
Samples == SamplesOver(Lats, Lngs, SpeedValues, {None})
Endpoints == EndpointsOver({Some(l) : l \in Lats}, Lngs)
Routes == RoutesOver(Samples)
Snapshots ==
    SnapshotsOver(Endpoints, Samples, {None} \cup {Some(x) : x \in Samples},
                  {Some("in_transit")}, {None})

\* Times of the samples (ISO strings in the data), as numbers.
Stamps == {None, Some(1), Some(2)}

\* Snapshots that differ in the timestamps of their samples.
PingSamples == SamplesOver({1}, Lngs, {None}, Stamps)
PingSnapshots ==
    SnapshotsOver(EndpointsOver({Some(1)}, Lngs), PingSamples,
                  {None} \cup {Some(x) : x \in PingSamples},
                  {Some("in_transit")}, {None})

\* Snapshots that differ in their coordinates: an endpoint may be missing,
\* or miss its lat, or lie on the equator or on the prime meridian; the
\* samples lie north and south, west and east of the endpoints.
GeoLats == {None, Some(0), Some(-10), Some(-15)}
GeoLngs == {0, 360, 369}
GeoSamples == SamplesOver({-20, -5}, {350, 380}, {None}, {None})
GeoSnapshots ==
    SnapshotsOver({None} \cup EndpointsOver(GeoLats, GeoLngs), GeoSamples,
                  {None}, {Some("in_transit")}, {None})

\* Statuses of a snapshot: absent, the five the backend knows, one it does
\* not know, and one that is the name of a property every JavaScript object
\* inherits.
SnapshotStatuses ==
    {None, Some("pending"), Some("assigned"), Some("in_transit"),
     Some("delivered"), Some("cancelled"), Some("returned"), Some("constructor")}

\* Snapshots that differ in their status and in their milestone timestamps.
TimelineSnapshots ==
    [origin : EndpointsOver({Some(1)}, Lngs),
     destination : EndpointsOver({Some(1)}, Lngs),
     route : {<<>>}, current_location : {None},
     status : SnapshotStatuses,
     created_at : {None, Some(1)}, assigned_at : {None, Some(1)},
     picked_up_at : {None, Some(1)}, delivered_at : {None, Some(1)}]

\* JavaScript truthiness of a number (an absent value is falsy).
Truthy(v) == v # None /\ v[1] # 0

\* Number.prototype.toFixed(0), on tenths: the nearest integer, halves up.
ToFixed0(x) == (x + 5) \div 10

\* value ? `${value.toFixed(0)} km/h` : nothing
SpeedText(v) == IF Truthy(v) THEN Some(ToFixed0(v[1])) ELSE None

Pos(p) == <<p.lat, p.lng>>

\* Mutant: the first route sample is taken instead of the last.
currentPosFirst(t) ==
    IF t.current_location # None THEN t.current_location
    ELSE IF Len(t.route) # 0 THEN Some(t.route[1]) ELSE None

\* const currentPos = current_location ||
\*                    (route?.length ? route[route.length - 1] : null)
currentPos(t) ==
    IF t.current_location # None THEN t.current_location
    ELSE IF Len(t.route) # 0 THEN Some(t.route[Len(t.route)]) ELSE None

\* Mutant: || in place of ??, so that a speed of 0 falls through as well.
lastSpeedOr(t) ==
    LET own == IF t.current_location # None THEN t.current_location[1].speed ELSE None
    IN  IF Truthy(own) THEN own
        ELSE IF Len(t.route) # 0 THEN t.route[Len(t.route)].speed ELSE None

\* const lastSpeed = current_location?.speed ?? route?.[route?.length - 1]?.speed
lastSpeed(t) ==
    LET own == IF t.current_location # None THEN t.current_location[1].speed ELSE None
    IN  IF own # None THEN own
        ELSE IF Len(t.route) # 0 THEN t.route[Len(t.route)].speed ELSE None

\* A primitive added to the map; speed and time are the lines of its popup.
Prim(type, role, pts, speed, time) ==
    [type |-> type, role |-> role, pts |-> pts, speed |-> speed, time |-> time]

\* origin?.lat
OptLat(o) == IF o = None THEN None ELSE o[1].lat

\* [origin.lat, origin.lng]
EndPos(o) == <<o[1].lat[1], o[1].lng>>

\* value ? format(value) : nothing; the timestamp handed to the formatter
\* (timeAgo, toLocaleTimeString) stands for the text it makes of it.
StampText(v) == IF Truthy(v) THEN v ELSE None

\* value={current_location?.timestamp ? timeAgo(current_location.timestamp) : null}
lastPing(t) ==
    IF t.current_location # None
    THEN StampText(t.current_location[1].timestamp)
    ELSE None

\* buildMap: the primitives it adds, in order; none when there is no snapshot
\* or when origin.lat or destination.lat is falsy.
buildMap(sn) ==
    IF sn = None THEN <<>>
    ELSE LET t == sn[1]
             cur == currentPos(t)
         IN  IF ~Truthy(OptLat(t.origin)) \/ ~Truthy(OptLat(t.destination))
             THEN <<>>
             ELSE <<Prim("marker", "origin", <<EndPos(t.origin)>>, None, None),
                    Prim("marker", "destination", <<EndPos(t.destination)>>,
                         None, None),
                    Prim("line", "direct",
                         <<EndPos(t.origin), EndPos(t.destination)>>, None, None)>>
                  \o (IF Len(t.route) >= 2
                      THEN <<Prim("line", "route",
                                  [i \in 1..Len(t.route) |-> Pos(t.route[i])],
                                  None, None)>>
                      ELSE <<>>)
                  \o (IF cur # None
                      THEN <<Prim("marker", "live", <<Pos(cur[1])>>,
                                  SpeedText(cur[1].speed),
                                  StampText(cur[1].timestamp))>>
                      ELSE <<>>)

\* The keys of the object literal STATUS_STYLE.
StyleKeys == {"pending", "assigned", "in_transit", "delivered", "cancelled"}

\* Names every object inherits from Object.prototype.
InheritedKeys == {"constructor"}

\* STATUS_STYLE[status]: the style of an own key (named by its key), the
\* inherited member for an inherited name, undefined otherwise.
StyleLookup(status) ==
    IF status = None THEN None
    ELSE IF status[1] \in StyleKeys THEN Some([style |-> status[1]])
    ELSE IF status[1] \in InheritedKeys THEN Some([inherited |-> status[1]])
    ELSE None

\* const statusStyle = STATUS_STYLE[status] || STATUS_STYLE.pending
statusStyle(status) ==
    IF StyleLookup(status) # None THEN StyleLookup(status)
    ELSE StyleLookup(Some("pending"))

\* x === "value", where x may be undefined.
Is(x, value) == x # None /\ x[1] = value

Step(label, time, active) ==
    [label |-> label, time |-> time, done |-> Truthy(time), active |-> active]

\* Mutant: the last step is active while the status is delivered.
timelineDeliveredActive(t) ==
    <<Step("Created", t.created_at, Is(t.status, "pending")),
      Step("Assigned", t.assigned_at, Is(t.status, "assigned")),
      Step("Transit", t.picked_up_at, Is(t.status, "in_transit")),
      Step("Delivered", t.delivered_at, Is(t.status, "delivered"))>>

\* const timeline = [ { label, time, done: !!time, active: status === ... } x 4 ]
timeline(t) ==
    <<Step("Created", t.created_at, Is(t.status, "pending")),
      Step("Assigned", t.assigned_at, Is(t.status, "assigned")),
      Step("Transit", t.picked_up_at, Is(t.status, "in_transit")),
      Step("Delivered", t.delivered_at, FALSE)>>

\* trackingData || {}, trackingData?.created_at: every field is undefined.
Blank ==
    [status |-> None, created_at |-> None, assigned_at |-> None,
     picked_up_at |-> None, delivered_at |-> None]

\* Nothing of the controls panel is rendered.
NoPanel == [speed |-> None, ping |-> None, timeline |-> <<>>, style |-> None]

\* Mutant: the route is left out of the coordinates to fit.
allCoordsEndpoints(t) == <<EndPos(t.origin), EndPos(t.destination)>>

\* const allCoords = [[origin.lat, origin.lng],
\*                    [destination.lat, destination.lng],
\*                    ...(route || []).map(p => [p.lat, p.lng])]
allCoords(t) ==
    <<EndPos(t.origin), EndPos(t.destination)>>
    \o [i \in 1..Len(t.route) |-> Pos(t.route[i])]

Least(S) == CHOOSE x \in S : \A y \in S : x <= y
Greatest(S) == CHOOSE x \in S : \A y \in S : x >= y

\* L.latLngBounds(coords): the south-west and north-east corners of the
\* smallest rectangle that holds every coordinate.
latLngBounds(coords) ==
    LET lats == {coords[i][1] : i \in 1..Len(coords)}
        lngs == {coords[i][2] : i \in 1..Len(coords)}
    IN  [min |-> <<Least(lats), Least(lngs)>>,
         max |-> <<Greatest(lats), Greatest(lngs)>>]

\* map.fitBounds(L.latLngBounds(allCoords)), the last statement of buildMap.
fitBounds(sn) ==
    IF sn = None THEN None
    ELSE IF ~Truthy(OptLat(sn[1].origin)) \/ ~Truthy(OptLat(sn[1].destination))
         THEN None
         ELSE Some(latLngBounds(allCoords(sn[1])))

\* The derived values of the component function: the Speed and the Last Ping
\* stats, the timeline and the style of the status badge.
Panel(sn) ==
    IF sn = None
    THEN [speed |-> None, ping |-> None, timeline |-> timeline(Blank),
          style |-> statusStyle(Blank.status)]
    ELSE [speed |-> SpeedText(lastSpeed(sn[1])),
          ping |-> lastPing(sn[1]),
          timeline |-> timeline(sn[1]),
          style |-> statusStyle(sn[1].status)]

\* The timers and the host play no part in SpecMap.
SchedIdle ==
    /\ host = "Caller" /\ hostMounted = TRUE /\ now = 0
    /\ shipment = Null /\ trackingData = NoSnapshot /\ loading = FALSE
    /\ error = "" /\ trackingNumber = "" /\ hostTimer = FALSE
    /\ calls = {} /\ started = 0
    /\ tmMounted = TRUE /\ autoRefresh = FALSE /\ hasOnRefresh = FALSE
    /\ tickerTimer = TRUE /\ refreshTimer = FALSE
    /\ lastRefresh = 0 /\ ticker = 0
    /\ ev = [kind |-> "init", call |-> NoCall, prev |-> NoSnapshot]

MapInit ==
    /\ SchedIdle
    /\ FormIdle
    /\ ExtraIdle
    /\ snap \in {None} \cup {Some(t) : t \in Snapshots \cup PingSnapshots \cup GeoSnapshots
                                       \cup TimelineSnapshots}
    /\ phase = "new"
    /\ panel = NoPanel
    /\ drawn = <<>>
    /\ view = None

\* The component function runs: the derived values of the controls panel.
RenderPanel ==
    /\ tmMounted
    /\ phase = "new"
    /\ phase' = "rendered"
    /\ panel' = Panel(snap)
    /\ UNCHANGED <<snap, drawn, view, schedVars, formVars, extraVars>>

\* The build effect runs buildMap to its end.
BuildMapEffect ==
    /\ tmMounted
    /\ phase = "rendered"
    /\ phase' = "built"
    /\ drawn' = buildMap(snap)
    /\ view' = fitBounds(snap)
    /\ UNCHANGED <<snap, panel, schedVars, formVars, extraVars>>

NextMap ==
    \/ RenderPanel
    \/ BuildMapEffect

SpecMap == MapInit /\ [][NextMap]_vars

\* ======================================================================
\* SpecCost: one call of previewCost
\* ======================================================================
\* A JavaScript value: null (or undefined), a number, NaN, the decimal text
\* of a number, the empty string, the text "NaN".  A distance is counted in
\* hundredths of a km, a weight in tenths of a kg, a cost in whole KSH.
Val(is, n) == [is |-> is, n |-> n]
JsNull == Val("null", 0)
NaN == Val("NaN", 0)
EmptyStr == Val("empty", 0)
NaNStr == Val("NaN text", 0)
Num(n) == Val("number", n)
Str(n) == Val("text", n)

\* !v
Falsy(v) == v.is \in {"null", "NaN", "empty"} \/ (v.is = "number" /\ v.n = 0)

\* parseFloat(v)
parseFloat(v) == IF v.is \in {"number", "text"} THEN Num(v.n) ELSE NaN

\* Math.round(x / 100): the nearest integer, halves upwards.
Round(x) == (x + 50) \div 100

\* Mutant: the last tier leaves out the 1600 of the tier before it.
distCostGap(d) ==
    IF d <= 1000 THEN d * 50
    ELSE IF d <= 5000 THEN 50000 + (d - 1000) * 40
    ELSE 50000 + (d - 5000) * 30

\* distCost of previewCost, in hundredths of a KSH, of d hundredths of a km.
distCost(d) ==
    IF d <= 1000 THEN d * 50
    ELSE IF d <= 5000 THEN 50000 + (d - 1000) * 40
    ELSE 50000 + 160000 + (d - 5000) * 30

\* Mutant: the surcharge is charged per whole 10 kg.
surchargeStepped(w) ==
    IF w.is = "number" /\ w.n > 200 THEN ((w.n - 200) \div 100) * 2000 ELSE 0

\* const surcharge = w > 20 ? ((w - 20) / 10) * 20 : 0, in hundredths of a
\* KSH, of w tenths of a kg (w > 20 is false for NaN).
surcharge(w) ==
    IF w.is = "number" /\ w.n > 200 THEN (w.n - 200) * 20 ELSE 0

\* function previewCost(distKm, weightKg)
previewCost(dist, weight) ==
    IF Falsy(dist) \/ Falsy(weight) THEN JsNull
    ELSE LET d == parseFloat(dist)
             w == parseFloat(weight)
         IN  IF d.is = "NaN" THEN NaN
             ELSE Num(Round(20000 + distCost(d.n) + surcharge(w)))

\* Arguments of the call: missing, negative, zero, and positive ones on
\* either side of the tier boundaries 10 km, 50 km and 20 kg, as numbers
\* and as the texts the form passes.
Dists == {-100, 0, 1, 999, 1000, 1001, 4999, 5000, 5001, 6000}
Weights == {-50, 0, 1, 200, 205, 300}
DistArgs == {JsNull, EmptyStr, NaN, NaNStr}
            \cup {Num(n) : n \in Dists} \cup {Str(n) : n \in Dists}
WeightArgs == {JsNull, EmptyStr, NaN}
              \cup {Num(n) : n \in Weights} \cup {Str(n) : n \in Weights}

CostInit ==
    /\ SchedIdle
    /\ MapIdle
    /\ ExtraIdle
    /\ args \in DistArgs \X WeightArgs
    /\ quote = <<>>
    /\ form = <<>> /\ step = 0 /\ distKm = <<>> /\ costKsh = <<>>
    /\ errors = {} /\ sent = <<>>

\* previewCost(args[1], args[2]) returns.
CallPreviewCost ==
    /\ args # <<>>
    /\ quote = <<>>
    /\ quote' = <<previewCost(args[1], args[2])>>
    /\ UNCHANGED <<args, form, step, distKm, costKsh, errors, sent>>
    /\ UNCHANGED <<schedVars, mapVars, extraVars>>

NextCost == CallPreviewCost

SpecCost == CostInit /\ [][NextCost]_vars

\* ======================================================================
\* SpecForm: the previews of ShipmentForm while its fields are edited
\* ======================================================================
\* What can be typed into the fields: a text field is empty or filled in;
\* a number input holds the empty string or the text of a number (whole
\* degrees for a coordinate, tenths of a kg for the weight).
Texts == {"", "a"}
LatTexts == {EmptyStr, Str(-1), Str(0)}
LngTexts == {EmptyStr, Str(36), Str(37)}
WeightTexts == {EmptyStr, Str(-50), Str(0), Str(1), Str(205), Str(100001)}

\* What the phone input may hold, as sequences of characters: nothing, a
\* blank, too few digits, a number with its country code.
PhoneTexts ==
    {<<>>, <<" ">>, <<"1", "2", "3", "4", "5">>,
     <<"+", "2", "5", "4", "7", "0", "0", "1", "2", "3", "4", "5", "6">>}

\* const BLANK (the fields that take part in the steps and the previews).
BLANK ==
    [origin_address |-> "", origin_latitude |-> EmptyStr,
     origin_longitude |-> EmptyStr,
     destination_address |-> "", destination_latitude |-> EmptyStr,
     destination_longitude |-> EmptyStr,
     recipient_name |-> "", recipient_phone |-> <<>>,
     weight_kg |-> EmptyStr]

\* The integer square root.
RECURSIVE IsqrtIn(_, _, _)
IsqrtIn(x, lo, hi) ==
    IF lo = hi THEN lo
    ELSE LET mid == (lo + hi + 1) \div 2
         IN  IF mid * mid <= x THEN IsqrtIn(x, mid, hi)
             ELSE IsqrtIn(x, lo, mid - 1)
Isqrt(x) == IsqrtIn(x, 0, 46340)

\* Math.sin(delta * Math.PI / 180 / 2) ** 2, in units of 10^-8, for a
\* difference of whole degrees.
sinSqHalf(delta) ==
    CASE delta = -2 -> 30459
      [] delta = -1 -> 7615
      [] delta = 0 -> 0
      [] delta = 1 -> 7615
      [] delta = 2 -> 30459

\* Math.cos(lat * Math.PI / 180), in units of 10^-4, for whole degrees.
cosDeg(lat) ==
    CASE lat = -1 -> 9998
      [] lat = 0 -> 10000
      [] lat = 1 -> 9998

\* R * 2 * Math.atan2(Math.sqrt(a), Math.sqrt(1 - a)) with R = 6371, in
\* hundredths of a km, of a in units of 10^-8 (for the small a of the model
\* the angle is the square root of a, to within 0.05 km).
arcKm(a) == (12742 * Isqrt(a * 10000) + 5000) \div 10000

\* Mutant: the cosine of the first latitude is taken twice.
haversineOneCos(lat1, lon1, lat2, lon2) ==
    LET dL == lat2 - lat1
        dN == lon2 - lon1
        a == sinSqHalf(dL)
             + (((cosDeg(lat1) * cosDeg(lat1)) \div 10000) * sinSqHalf(dN)) \div 10000
    IN  arcKm(a)

\* function haversine(lat1, lon1, lat2, lon2), followed by toFixed(2): the
\* distance in hundredths of a km between points of whole degrees.
haversine(lat1, lon1, lat2, lon2) ==
    LET dL == lat2 - lat1
        dN == lon2 - lon1
        a == sinSqHalf(dL)
             + (((cosDeg(lat1) * cosDeg(lat2)) \div 10000) * sinSqHalf(dN)) \div 10000
    IN  arcKm(a)

\* const distKm = (form.origin_latitude && form.destination_latitude)
\*   ? haversine(parseFloat(...) x 4).toFixed(2) : null
distKmOf(f) ==
    IF Falsy(f.origin_latitude) \/ Falsy(f.destination_latitude) THEN JsNull
    ELSE LET lat1 == parseFloat(f.origin_latitude)
             lon1 == parseFloat(f.origin_longitude)
             lat2 == parseFloat(f.destination_latitude)
             lon2 == parseFloat(f.destination_longitude)
         IN  IF \E x \in {lat1, lon1, lat2, lon2} : x.is = "NaN"
             THEN NaNStr
             ELSE Str(haversine(lat1.n, lon1.n, lat2.n, lon2.n))

\* const costKsh = distKm && form.weight_kg
\*   ? previewCost(distKm, form.weight_kg) : null
costKshOf(f) ==
    IF ~Falsy(distKmOf(f)) /\ ~Falsy(f.weight_kg)
    THEN previewCost(distKmOf(f), f.weight_kg)
    ELSE JsNull

\* !form.recipient_phone.trim(): the text is empty or all blanks.
Blanks(t) == \A i \in 1..Len(t) : t[i] = " "

\* /^\+?[\d\s\-]{9,15}$/.test(t)
PhoneChars == {"0", "1", "2", "3", "4", "5", "6", "7", "8", "9", " ", "-"}
PhoneTest(t) ==
    LET body == IF Len(t) > 0 /\ t[1] = "+" THEN Tail(t) ELSE t
    IN  /\ Len(body) >= 9 /\ Len(body) <= 15
        /\ \A i \in 1..Len(body) : body[i] \in PhoneChars

\* validateStep(step, form): the keys of the object it returns (the texts
\* of the model's address and name fields have no blanks to trim; the weight
\* is in tenths of a kg).
validateStep(s, f) ==
    IF s = 1
    THEN {k \in {"origin_address"} : f.origin_address = ""}
         \cup {k \in {"origin_coords"} :
                   Falsy(f.origin_latitude) \/ Falsy(f.origin_longitude)}
    ELSE IF s = 2
    THEN {k \in {"destination_address"} : f.destination_address = ""}
         \cup {k \in {"destination_coords"} :
                   Falsy(f.destination_latitude) \/ Falsy(f.destination_longitude)}
         \cup {k \in {"recipient_name"} : f.recipient_name = ""}
         \cup {k \in {"recipient_phone"} :
                   Blanks(f.recipient_phone) \/ ~PhoneTest(f.recipient_phone)}
    ELSE IF s = 3
    THEN {k \in {"weight_kg"} :
             \/ Falsy(f.weight_kg)
             \/ parseFloat(f.weight_kg).is = "NaN"
             \/ parseFloat(f.weight_kg).n <= 0
             \/ parseFloat(f.weight_kg).n > 100000}
    ELSE {}

\* The fields whose value differs between two forms.
Changed(f, g) == {k \in DOMAIN f : f[k] # g[k]}

\* Mutant: the previews are not derived anew when a field changes.
setStale(f) ==
    /\ form' = f
    /\ errors' = errors \ Changed(form, f)
    /\ sent' = <<>>
    /\ UNCHANGED <<distKm, costKsh>>
    /\ UNCHANGED <<step, args, quote, schedVars, mapVars, extraVars>>

\* set(key, value), for each key the handler sets, and the render that
\* follows: the error filed under a key that was set is deleted.
set(f) ==
    /\ form' = f
    /\ errors' = errors \ Changed(form, f)
    /\ sent' = <<>>
    /\ distKm' = distKmOf(f)
    /\ costKsh' = costKshOf(f)
    /\ UNCHANGED <<step, args, quote, schedVars, mapVars, extraVars>>

\* The fields each step shows.
TextFields(s) ==
    IF s = 1 THEN {"origin_address"}
    ELSE IF s = 2 THEN {"destination_address", "recipient_name"}
    ELSE {}
Pickers(s) ==
    IF s = 1 THEN {<<"origin_latitude", "origin_longitude">>}
    ELSE IF s = 2 THEN {<<"destination_latitude", "destination_longitude">>}
    ELSE {}

FormInit ==
    /\ SchedIdle
    /\ MapIdle
    /\ ExtraIdle
    /\ args = <<>>
    /\ quote = <<>>
    /\ form = BLANK
    /\ step = 1
    /\ errors = {}
    /\ sent = <<>>
    /\ distKm = distKmOf(BLANK)
    /\ costKsh = costKshOf(BLANK)

\* A text input of the step is edited.
TypeText ==
    \E key \in TextFields(step), v \in Texts :
        /\ form[key] # v
        /\ set([form EXCEPT ![key] = v])

\* The phone input of step 2 is edited.
TypePhone ==
    \E v \in PhoneTexts :
        /\ step = 2
        /\ form.recipient_phone # v
        /\ set([form EXCEPT !.recipient_phone = v])

\* MapPicker, latitude input: onPick(e.target.value, lng).
TypeLat ==
    \E p \in Pickers(step), v \in LatTexts :
        /\ form[p[1]] # v
        /\ set([form EXCEPT ![p[1]] = v, ![p[2]] = form[p[2]]])

\* MapPicker, longitude input: onPick(lat, e.target.value).
TypeLng ==
    \E p \in Pickers(step), v \in LngTexts :
        /\ form[p[2]] # v
        /\ set([form EXCEPT ![p[1]] = form[p[1]], ![p[2]] = v])

\* MapPicker, "Clear pin" (shown when lat && lng): onPick("", "").
ClearPin ==
    \E p \in Pickers(step) :
        /\ ~Falsy(form[p[1]]) /\ ~Falsy(form[p[2]])
        /\ set([form EXCEPT ![p[1]] = EmptyStr, ![p[2]] = EmptyStr])

\* The weight input of step 3 is edited.
TypeWeight ==
    \E v \in WeightTexts :
        /\ step = 3
        /\ form.weight_kg # v
        /\ set([form EXCEPT !.weight_kg = v])

\* Mutant: the step is left without validation.
goNextUnchecked ==
    /\ step \in {1, 2}
    /\ errors' = {}
    /\ step' = step + 1
    /\ sent' = <<>>
    /\ distKm' = distKmOf(form)
    /\ costKsh' = costKshOf(form)
    /\ UNCHANGED <<form, args, quote, schedVars, mapVars, extraVars>>

\* goNext, the handler of "Next" (shown while step < 3): with errors they are
\* stored and the step stays; without, the step is left.
goNext ==
    /\ step \in {1, 2}
    /\ LET errs == validateStep(step, form)
       IN  IF errs # {}
           THEN errors' = errs /\ step' = step
           ELSE errors' = {} /\ step' = step + 1
    /\ sent' = <<>>
    /\ distKm' = distKmOf(form)
    /\ costKsh' = costKshOf(form)
    /\ UNCHANGED <<form, args, quote, schedVars, mapVars, extraVars>>

\* goBack, the handler of "Back" (shown while step is not 1).
goBack ==
    /\ step \in {2, 3}
    /\ errors' = {}
    /\ step' = step - 1
    /\ sent' = <<>>
    /\ distKm' = distKmOf(form)
    /\ costKsh' = costKshOf(form)
    /\ UNCHANGED <<form, args, quote, schedVars, mapVars, extraVars>>

\* handleSubmit, the handler of the form's submit event.  The form has a
\* submit button at step 3 only; at steps 1 and 2 it has several text and
\* number inputs and no submit button, so Enter does not submit it either.
handleSubmit ==
    /\ step = 3
    /\ LET errs == validateStep(3, form)
       IN  IF errs # {}
           THEN errors' = errs /\ sent' = <<>>
           ELSE /\ errors' = errors
                /\ sent' = <<[form EXCEPT !.weight_kg = parseFloat(form.weight_kg)]>>
    /\ distKm' = distKmOf(form)
    /\ costKsh' = costKshOf(form)
    /\ UNCHANGED <<form, step, args, quote, schedVars, mapVars, extraVars>>

NextForm ==
    \/ TypeText
    \/ TypeLat
    \/ TypeLng
    \/ ClearPin
    \/ TypeWeight
    \/ TypePhone
    \/ goNext
    \/ goBack
    \/ handleSubmit

SpecForm == FormInit /\ [][NextForm]_vars

\* ======================================================================
\* SpecDistance: haversine on pairs of points
\* ======================================================================
Points == [lat : {-1, 0, 1}, lng : {36, 37, 38}]

DistanceInit ==
    /\ SchedIdle
    /\ MapIdle
    /\ ExtraIdle
    /\ args \in Points \X Points
    /\ quote = <<>>
    /\ form = <<>> /\ step = 0 /\ distKm = <<>> /\ costKsh = <<>>
    /\ errors = {} /\ sent = <<>>

\* haversine is called on the two points in either order, and on each point
\* with itself.
CallHaversine ==
    /\ args # <<>>
    /\ quote = <<>>
    /\ LET a == args[1]
           b == args[2]
       IN  quote' = <<[ab |-> haversine(a.lat, a.lng, b.lat, b.lng),
                      ba |-> haversine(b.lat, b.lng, a.lat, a.lng),
                      aa |-> haversine(a.lat, a.lng, a.lat, a.lng),
                      bb |-> haversine(b.lat, b.lng, b.lat, b.lng)]>>
    /\ UNCHANGED <<args, form, step, distKm, costKsh, errors, sent>>
    /\ UNCHANGED <<schedVars, mapVars, extraVars>>

NextDistance == CallHaversine

SpecDistance == DistanceInit /\ [][NextDistance]_vars

\* ======================================================================
\* SpecLocation: the device-location request of LocationPicker
\* ======================================================================
\* The codes of a GeolocationPositionError, and one no constant names.
ErrorCodes == {"PERMISSION_DENIED", "POSITION_UNAVAILABLE", "TIMEOUT", "OTHER"}

\* if (!navigator.geolocation) setLocationError(...)
UnsupportedMessage == "Geolocation is not supported by your browser"

\* Mutant: one message for every cause.
errorMessageGeneric(code) == "An unknown error occurred."

\* switch (error.code) { ... setLocationError(...) }
errorMessage(code) ==
    CASE code = "PERMISSION_DENIED" ->
            "Location access denied. Please enable in browser settings."
      [] code = "POSITION_UNAVAILABLE" -> "Location information unavailable."
      [] code = "TIMEOUT" -> "Location request timed out."
      [] OTHER -> "An unknown error occurred."

notLoc == <<schedVars, mapVars, formVars, pageVars, timedVars, buildVars,
           driverVars>>

LocInit ==
    /\ SchedIdle
    /\ MapIdle
    /\ FormIdle
    /\ PageIdle
    /\ TimedIdle
    /\ BuildIdle
    /\ DriverIdle
    /\ geolocation \in BOOLEAN
    /\ gettingLocation = FALSE
    /\ locationError = Null
    /\ selectedLocation = "initialLocation"
    /\ geoRequest = FALSE
    /\ reasons = {}

\* getCurrentLocation, the handler of "Use My Location" (disabled while
\* gettingLocation).
getCurrentLocation ==
    /\ ~gettingLocation
    /\ IF ~geolocation
       THEN /\ locationError' = UnsupportedMessage
            /\ reasons' = reasons \cup {<<"UNSUPPORTED", UnsupportedMessage>>}
            /\ UNCHANGED <<gettingLocation, geoRequest>>
       ELSE /\ gettingLocation' = TRUE
            /\ locationError' = Null
            /\ geoRequest' = TRUE
            /\ UNCHANGED reasons
    /\ UNCHANGED <<geolocation, selectedLocation, notLoc>>

\* The success callback of getCurrentPosition.
PositionSuccess ==
    /\ geoRequest
    /\ geoRequest' = FALSE
    /\ selectedLocation' = "device"
    /\ gettingLocation' = FALSE
    /\ UNCHANGED <<geolocation, locationError, reasons, notLoc>>

\* The error callback of getCurrentPosition.
PositionError ==
    \E code \in ErrorCodes :
        /\ geoRequest
        /\ geoRequest' = FALSE
        /\ gettingLocation' = FALSE
        /\ locationError' = errorMessage(code)
        /\ reasons' = reasons \cup {<<code, errorMessage(code)>>}
        /\ UNCHANGED <<geolocation, selectedLocation, notLoc>>

\* handleMapClick
handleMapClick ==
    /\ selectedLocation' = "click"
    /\ locationError' = Null
    /\ UNCHANGED <<geolocation, gettingLocation, geoRequest, reasons, notLoc>>

NextLoc ==
    \/ getCurrentLocation
    \/ PositionSuccess
    \/ PositionError
    \/ handleMapClick

SpecLocation == LocInit /\ [][NextLoc]_vars

\* ======================================================================
\* SpecPublic: PublicTracking opened from a URL
\* ======================================================================
\* What params.get("number") may return: null, "" or a tracking number.
Searches == {None} \cup {Some(n) : n \in TrackingNumbers}

PublicInit ==
    /\ MapIdle
    /\ FormIdle
    /\ LocIdle
    /\ TimedIdle
    /\ BuildIdle
    /\ DriverIdle
    /\ search \in Searches
    /\ page = "opening"
    /\ host = "PublicTracking" /\ hostMounted = FALSE /\ now = 0
    /\ shipment = Null /\ trackingData = NoSnapshot /\ loading = FALSE
    /\ error = "" /\ trackingNumber = "" /\ hostTimer = FALSE
    /\ calls = {} /\ started = 0
    /\ tmMounted = FALSE /\ autoRefresh = FALSE /\ hasOnRefresh = FALSE
    /\ tickerTimer = FALSE /\ refreshTimer = FALSE
    /\ lastRefresh = 0 /\ ticker = 0
    /\ ev = [kind |-> "init", call |-> NoCall, prev |-> NoSnapshot]

\* if (number): the initializer acts on a non-empty number only.
HasNumber(q) == q # None /\ q[1] # ""

\* The first render of PublicTracking.  The function given to useState on
\* line 200 is called during that render; with a number in the URL it calls
\* setTrackingNumber and then reads handleTrack, a const that line 210 has
\* not initialised yet: the read throws, the render fails and nothing of the
\* page is mounted (no state is committed either).
MountPublic ==
    /\ page = "opening"
    /\ UNCHANGED <<mapVars, formVars, locVars, timedVars, buildVars, driverVars,
                   search>>
    /\ UNCHANGED <<host, now, hostVars, calls, started>>
    /\ IF HasNumber(search)
       THEN page' = "failed" /\ hostMounted' = FALSE
       ELSE page' = "mounted" /\ hostMounted' = TRUE
    /\ Rerender(lastRefresh, ticker)
    /\ ev' = Quiet("mount")

NextPublic ==
    \/ MountPublic
    \/ EditTrackingNumber
    \/ SubmitTrack
    \/ \E c \in calls : Resolve(c)
    \/ \E c \in calls : Reject(c)
    \/ Advance
    \/ TickerFire
    \/ RefreshTick
    \/ ManualRefresh
    \/ Leave

SpecPublic == PublicInit /\ [][NextPublic]_vars

\* ======================================================================
\* SpecRefresh: the 30 s interval of TrackingMap, with its period measured
\* ======================================================================
\* setInterval(..., 30000): the period, in units of ten seconds.
Period == 3

\* The variables the timed interval does not touch.
notTimed == <<host, hostMounted, now, shipment, trackingData, loading, error,
              trackingNumber, hostTimer, calls, started, tmMounted,
              tickerTimer, ticker, ev, mapVars, formVars, locVars, pageVars,
              buildVars, driverVars>>

\* TrackingMap has just mounted, with some autoRefresh and onRefresh.
RefreshInit ==
    /\ MapIdle
    /\ FormIdle
    /\ LocIdle
    /\ PageIdle
    /\ BuildIdle
    /\ DriverIdle
    /\ host = "Caller" /\ hostMounted = TRUE /\ now = 0
    /\ shipment = Null /\ trackingData = NoSnapshot /\ loading = FALSE
    /\ error = "" /\ trackingNumber = "" /\ hostTimer = FALSE
    /\ calls = {} /\ started = 0
    /\ tmMounted = TRUE
    /\ autoRefresh \in BOOLEAN
    /\ hasOnRefresh \in BOOLEAN
    /\ tickerTimer = TRUE
    /\ refreshTimer = RefreshEffect(autoRefresh, hasOnRefresh)
    /\ lastRefresh = 0 /\ ticker = 0
    /\ ev = [kind |-> "init", call |-> NoCall, prev |-> NoSnapshot]
    /\ clock = 0
    /\ armedAt = 0
    /\ lastTick = 0

\* The interval is due.
Due == refreshTimer /\ clock - armedAt >= Period

\* Ten seconds pass.  A due interval fires before more time passes.
Pass ==
    /\ clock < MaxClock
    /\ ~Due
    /\ clock' = clock + 1
    /\ UNCHANGED <<armedAt, lastTick, autoRefresh, hasOnRefresh, refreshTimer,
                   lastRefresh, notTimed>>

\* The interval fires: onRefresh(); lastRefreshRef.current = new Date().
\* The interval stays set and counts its period anew.
IntervalFire ==
    /\ Due
    /\ armedAt' = clock
    /\ lastTick' = clock
    /\ lastRefresh' = NewDate(clock)
    /\ UNCHANGED <<clock, autoRefresh, hasOnRefresh, refreshTimer, notTimed>>

\* The parent renders again and passes autoRefresh = auto and an onRefresh
\* (cb: one is passed; fresh: it is a function created by this render, as
\* in the three host pages).  When a dependency of the effect differs, React
\* runs the cleanup (clearInterval) and the effect again (a new setInterval,
\* whose period starts now).
HostRender ==
    \E auto \in BOOLEAN, cb \in BOOLEAN, fresh \in BOOLEAN :
        LET rerun == auto # autoRefresh \/ cb # hasOnRefresh \/ (cb /\ fresh)
            active == autoRefresh /\ hasOnRefresh
        IN  /\ autoRefresh' = auto
            /\ hasOnRefresh' = cb
            /\ refreshTimer' = IF rerun
                               THEN RefreshCleanup(refreshTimer) \/ RefreshEffect(auto, cb)
                               ELSE refreshTimer
            /\ armedAt' = IF rerun /\ RefreshEffect(auto, cb) THEN clock ELSE armedAt
            /\ lastTick' = IF ~active /\ auto /\ cb THEN clock ELSE lastTick
            /\ UNCHANGED <<clock, lastRefresh, notTimed>>

NextRefresh ==
    \/ Pass
    \/ IntervalFire
    \/ HostRender

SpecRefresh == RefreshInit /\ [][NextRefresh]_vars

\* ======================================================================
\* SpecBuild: buildMap followed through its awaits
\* ======================================================================
\* The snapshots the parent passes: two that differ in their origin, and
\* one whose origin has no lat.
BuildSnapshots ==
    [origin : EndpointsOver({None, Some(-10), Some(-15)}, {360}),
     destination : EndpointsOver({Some(-10)}, {360}),
     route : {<<>>}, current_location : {None},
     status : {Some("in_transit")},
     created_at : {None}, assigned_at : {None},
     picked_up_at : {None}, delivered_at : {None}]

\* The variables buildMap and its effect do not touch.
notBuild == <<host, hostMounted, now, shipment, trackingData, loading, error,
              trackingNumber, hostTimer, calls, started, autoRefresh,
              hasOnRefresh, tickerTimer, refreshTimer, lastRefresh, ticker, ev,
              phase, panel, formVars, locVars, pageVars, timedVars,
              driverVars>>

\* buildMap up to its first await: if (!mapDivRef.current || !trackingData)
\* return; else the call is suspended at await import("leaflet").
Suspended(div, sn) == IF div /\ sn # None THEN <<sn[1]>> ELSE <<>>

\* TrackingMap has just mounted with some trackingData: the div (or the
\* placeholder) is in the DOM and the effect has called buildMap.
BuildInit ==
    /\ FormIdle
    /\ LocIdle
    /\ PageIdle
    /\ TimedIdle
    /\ DriverIdle
    /\ host = "Caller" /\ hostMounted = TRUE /\ now = 0
    /\ shipment = Null /\ trackingData = NoSnapshot /\ loading = FALSE
    /\ error = "" /\ trackingNumber = "" /\ hostTimer = FALSE
    /\ calls = {} /\ started = 0
    /\ tmMounted = TRUE /\ autoRefresh = FALSE /\ hasOnRefresh = FALSE
    /\ tickerTimer = TRUE /\ refreshTimer = FALSE
    /\ lastRefresh = 0 /\ ticker = 0
    /\ ev = [kind |-> "init", call |-> NoCall, prev |-> NoSnapshot]
    /\ snap \in {None} \cup {Some(t) : t \in BuildSnapshots}
    /\ phase = "new"
    /\ panel = NoPanel
    /\ drawn = <<>>
    /\ view = None
    /\ container = (snap # None)
    /\ builds = Suspended(container, snap)
    /\ leafletMap = None
    /\ instances = {}

\* The cleanup of the build effect:
\* if (leafletMap.current) { leafletMap.current.remove(); leafletMap.current = null; }
Removed(ref, maps) == IF ref # None THEN maps \ {ref[1]} ELSE maps

\* The parent passes another trackingData.  The render puts the div or the
\* placeholder into the DOM; buildMap is a new function, so the cleanup of
\* the effect runs and then the effect, which calls the new buildMap.
SetSnapshot ==
    \E sn \in {None} \cup {Some(t) : t \in BuildSnapshots} :
        /\ tmMounted
        /\ sn # snap
        /\ Len(builds) < MaxPending
        /\ snap' = sn
        /\ container' = (sn # None)
        /\ instances' = Removed(leafletMap, instances)
        /\ leafletMap' = None
        /\ drawn' = IF leafletMap # None THEN <<>> ELSE drawn
        /\ view' = IF leafletMap # None THEN None ELSE view
        /\ builds' = builds \o Suspended(container', sn)
        /\ UNCHANGED <<tmMounted, notBuild>>

\* TrackingMap is unmounted: React clears the ref of the div and runs the
\* cleanup of the effect.  Suspended calls of buildMap stay suspended.
Teardown ==
    /\ tmMounted
    /\ tmMounted' = FALSE
    /\ container' = FALSE
    /\ instances' = Removed(leafletMap, instances)
    /\ leafletMap' = None
    /\ drawn' = IF leafletMap # None THEN <<>> ELSE drawn
    /\ view' = IF leafletMap # None THEN None ELSE view
    /\ UNCHANGED <<snap, builds, notBuild>>

\* buildMap from its awaits to its end, for the trackingData t it closed
\* over: the guard on origin and destination, the removal of the map held
\* in leafletMap.current, and L.map(mapDivRef.current, ...), which throws
\* when there is no container.
Resumed(t, div, ref, maps) ==
    IF ~Truthy(OptLat(t.origin)) \/ ~Truthy(OptLat(t.destination))
    THEN [ref |-> ref, maps |-> maps, built |-> FALSE]
    ELSE IF ~div
    THEN [ref |-> None, maps |-> Removed(ref, maps), built |-> FALSE]
    ELSE [ref |-> Some([from |-> t]),
          maps |-> Removed(ref, maps) \cup {[from |-> t]},
          built |-> TRUE]

\* The oldest suspended call of buildMap resumes (the modules that the calls
\* await are delivered in the order in which they were requested).
FinishBuild ==
    /\ builds # <<>>
    /\ LET t == Head(builds)
           r == Resumed(t, container, leafletMap, instances)
       IN  /\ leafletMap' = r.ref
           /\ instances' = r.maps
           /\ drawn' = IF r.built THEN buildMap(Some(t))
                       ELSE IF r.ref = None THEN <<>> ELSE drawn
           /\ view' = IF r.built THEN fitBounds(Some(t))
                      ELSE IF r.ref = None THEN None ELSE view
    /\ builds' = Tail(builds)
    /\ UNCHANGED <<snap, container, tmMounted, notBuild>>

NextBuild ==
    \/ SetSnapshot
    \/ Teardown
    \/ FinishBuild

SpecBuild == BuildInit /\ [][NextBuild]_vars

\* ======================================================================
\* SpecHost: what the parents pass to TrackingMap
\* ======================================================================
\* The shipment (or delivery) a host page has loaded, with the coordinates
\* the page makes of its columns by parseFloat (all of them valid).
HostShipments ==
    [status : {"pending", "in_transit", "delivered"},
     origin : [lat : {1, 2}, lng : {36}],
     destination : [lat : {1, 2}, lng : {36}]]

\* The response of GET /tracking/shipment/{id}/route as the pages read it.
RouteResponses ==
    [current_location : {None, Some([latitude |-> 1, longitude |-> 36,
                                     timestamp |-> 1])},
     route : {<<>>, <<[lat |-> 1, lng |-> 36, speed |-> None,
                       timestamp |-> None]>>}]

\* The props of <TrackingMap ...> in the JSX of the three host pages.
HostProps(h, sh, td) ==
    [origin |-> sh.origin,
     destination |-> sh.destination,
     currentLocation |->
        IF td # None /\ td[1].current_location # None
        THEN Some([lat |-> td[1].current_location[1].latitude,
                   lng |-> td[1].current_location[1].longitude,
                   timestamp |-> td[1].current_location[1].timestamp])
        ELSE None,
     route |-> IF td # None THEN td[1].route ELSE <<>>,
     height |-> IF h = "DeliveryDetail" THEN "400px" ELSE "500px",
     autoRefresh |-> sh.status = "in_transit",
     onRefresh |-> RefreshFn(h)]

\* The props of the documented usage (TrackingMap.jsx lines 38-43).
CallerProps(td) ==
    [trackingData |-> td, autoRefresh |-> TRUE, onRefresh |-> "load",
     height |-> "500px"]

\* function TrackingMap({ trackingData, height, autoRefresh, onRefresh,
\* showControls }): the parameter trackingData is the prop of that name,
\* undefined when the parent passes none.
PropTrackingData(props) ==
    IF "trackingData" \in DOMAIN props THEN props.trackingData ELSE None

\* Whether the page renders <TrackingMap> once it has stopped loading.
Shows(h, sh) ==
    CASE h = "Caller" -> TRUE
      [] h = "PublicTracking" -> sh # None /\ sh[1].status # "pending"
      [] OTHER -> sh # None

\* The variables that play no part in SpecHost (the timers are not followed).
notHost == <<host, hostMounted, now, loading, error, trackingNumber, hostTimer,
             calls, started, autoRefresh, hasOnRefresh, tickerTimer,
             refreshTimer, lastRefresh, ticker, ev, formVars, extraVars>>

\* The page (or Caller) before any response has arrived.
HostInit ==
    /\ FormIdle
    /\ ExtraIdle
    /\ host \in Hosts /\ hostMounted = TRUE /\ now = 0
    /\ shipment = None /\ trackingData = None /\ loading = FALSE
    /\ error = "" /\ trackingNumber = "" /\ hostTimer = FALSE
    /\ calls = {} /\ started = 0
    /\ tmMounted = Shows(host, None)
    /\ autoRefresh = FALSE /\ hasOnRefresh = FALSE
    /\ tickerTimer = FALSE /\ refreshTimer = FALSE
    /\ lastRefresh = 0 /\ ticker = 0
    /\ ev = [kind |-> "init", call |-> NoCall, prev |-> NoSnapshot]
    /\ snap = None
    /\ phase = "new"
    /\ panel = NoPanel
    /\ drawn = <<>>
    /\ view = None

\* The render of the parent that follows a state update, and the render of
\* TrackingMap with the props the parent passes.
RenderHost(sh, td) ==
    /\ tmMounted' = Shows(host, sh)
    /\ snap' = IF ~Shows(host, sh) THEN None
               ELSE IF host = "Caller" THEN PropTrackingData(CallerProps(td))
               ELSE PropTrackingData(HostProps(host, sh[1], td))
    /\ phase' = "new"
    /\ panel' = NoPanel
    /\ drawn' = <<>>
    /\ view' = None

\* setShipment(response.data) / setDelivery(response.data)
ShipmentLoaded ==
    \E s \in HostShipments :
        /\ host # "Caller"
        /\ shipment = None
        /\ shipment' = Some(s)
        /\ RenderHost(shipment', trackingData)
        /\ UNCHANGED <<trackingData, notHost>>

\* setTrackingData(trackingResponse.data) in a host page
RouteLoaded ==
    \E r \in RouteResponses :
        /\ host # "Caller"
        /\ shipment # None
        /\ trackingData = None
        /\ trackingData' = Some(r)
        /\ RenderHost(shipment, trackingData')
        /\ UNCHANGED <<shipment, notHost>>

\* setTrackingData(data) in the documented usage
CallerLoaded ==
    \E t \in BuildSnapshots :
        /\ host = "Caller"
        /\ trackingData = None
        /\ trackingData' = Some(t)
        /\ RenderHost(shipment, trackingData')
        /\ UNCHANGED <<shipment, notHost>>

NextHost ==
    \/ ShipmentLoaded
    \/ RouteLoaded
    \/ CallerLoaded
    \/ RenderPanel
    \/ BuildMapEffect

SpecHost == HostInit /\ [][NextHost]_vars

\* ======================================================================
\* SpecDriver: the driver dashboard and its automatic location updates
\* ======================================================================
\* STATUS_OPTIONS
DriverStatuses == {"available", "on_duty", "off_duty"}

\* The variables that play no part in SpecDriver.
notDriver == <<host, hostMounted, now, shipment, trackingData, trackingNumber,
               hostTimer, calls, started, tmVars, ev, mapVars, formVars,
               locVars, pageVars, timedVars, buildVars>>

\* The dashboard has just mounted: the state cells hold their defaults and
\* the mount effect has called fetchDashboardData, which is suspended at
\* GET /drivers/me.  The auto-update effect has found sharing off.
DriverInit ==
    /\ MapIdle
    /\ FormIdle
    /\ LocIdle
    /\ PageIdle
    /\ TimedIdle
    /\ BuildIdle
    /\ host = "Caller" /\ hostMounted = TRUE /\ now = 0
    /\ shipment = Null /\ trackingData = NoSnapshot
    /\ trackingNumber = "" /\ hostTimer = FALSE
    /\ calls = {} /\ started = 0
    /\ tmMounted = FALSE /\ autoRefresh = FALSE /\ hasOnRefresh = FALSE
    /\ tickerTimer = FALSE /\ refreshTimer = FALSE
    /\ lastRefresh = 0 /\ ticker = 0
    /\ ev = [kind |-> "init", call |-> NoCall, prev |-> NoSnapshot]
    /\ loading = TRUE
    /\ error = ""
    /\ deviceGeo \in BOOLEAN
    /\ serverStatus \in DriverStatuses
    /\ driverStatus = "available"
    /\ locationSharing = FALSE
    /\ driverData = FALSE
    /\ fetchPc = "me"
    /\ statusCall = None
    /\ updatingStatus = FALSE
    /\ shareTimer = FALSE
    /\ positionRequests = 0
    /\ autoPut = None

\* if (!locationSharing || status !== "on_duty") return;
Sharing(on, st) == on /\ st = "on_duty"

\* The render that follows a handler, and the auto-update effect (deps
\* [locationSharing, status]): when a dependency has changed the cleanup
\* clears the interval, and the effect, while sharing is on and the status
\* on_duty, calls updateLocation and sets the interval anew.  updateLocation
\* asks the device for its position when navigator.geolocation exists.
AutoUpdateEffect ==
    LET rerun == locationSharing' # locationSharing \/ driverStatus' # driverStatus
        active == Sharing(locationSharing', driverStatus')
    IN  /\ shareTimer' = IF rerun THEN active ELSE shareTimer
        /\ positionRequests' = IF rerun /\ active /\ deviceGeo
                               THEN positionRequests + 1
                               ELSE positionRequests

\* GET /drivers/me is fulfilled: setDriverData, setStatus(response status).
FetchMeResolve ==
    /\ fetchPc = "me"
    /\ positionRequests < MaxRequests
    /\ fetchPc' = "rest"
    /\ driverData' = TRUE
    /\ driverStatus' = serverStatus
    /\ UNCHANGED locationSharing
    /\ autoPut' = None
    /\ AutoUpdateEffect
    /\ UNCHANGED <<deviceGeo, serverStatus, statusCall, updatingStatus, loading,
                   error, notDriver>>

\* The later requests of fetchDashboardData are fulfilled (setStats,
\* setActiveDeliveries), and finally setLoading(false).
FetchRestResolve ==
    /\ fetchPc = "rest"
    /\ fetchPc' = "done"
    /\ loading' = FALSE
    /\ autoPut' = None
    /\ UNCHANGED <<deviceGeo, serverStatus, driverStatus, locationSharing,
                   driverData, statusCall, updatingStatus, shareTimer,
                   positionRequests, error, notDriver>>

\* A request of fetchDashboardData is rejected: setError, setLoading(false).
FetchReject ==
    /\ fetchPc \in {"me", "rest"}
    /\ fetchPc' = "done"
    /\ loading' = FALSE
    /\ error' = "load"
    /\ autoPut' = None
    /\ UNCHANGED <<deviceGeo, serverStatus, driverStatus, locationSharing,
                   driverData, statusCall, updatingStatus, shareTimer,
                   positionRequests, notDriver>>

\* The toggle (disabled while the status is off_duty):
\* setLocationSharing(!locationSharing).
ToggleSharing ==
    /\ driverStatus # "off_duty"
    /\ positionRequests < MaxRequests
    /\ locationSharing' = ~locationSharing
    /\ autoPut' = None
    /\ UNCHANGED driverStatus
    /\ AutoUpdateEffect
    /\ UNCHANGED <<deviceGeo, serverStatus, driverData, fetchPc, statusCall,
                   updatingStatus, loading, error, notDriver>>

\* A status button (disabled while updatingStatus): handleStatusChange up to
\* its await.  Before driverData is set, reading driverData.id throws inside
\* the try block, and the handler ends with an error message.
ClickStatus ==
    \E s \in DriverStatuses :
        /\ ~updatingStatus
        /\ IF driverData
           THEN /\ statusCall' = Some(s)
                /\ updatingStatus' = TRUE
                /\ error' = ""
           ELSE /\ statusCall' = statusCall
                /\ updatingStatus' = FALSE
                /\ error' = "status"
        /\ autoPut' = None
        /\ UNCHANGED <<deviceGeo, serverStatus, driverStatus, locationSharing,
                       driverData, fetchPc, shareTimer, positionRequests,
                       loading, notDriver>>

\* PUT /drivers/{id}/status is fulfilled: setStatus(newStatus), and
\* setLocationSharing(false) when the new status is off_duty.
StatusResolve ==
    /\ statusCall # None
    /\ positionRequests < MaxRequests
    /\ serverStatus' = statusCall[1]
    /\ driverStatus' = statusCall[1]
    /\ locationSharing' = IF statusCall[1] = "off_duty" THEN FALSE
                          ELSE locationSharing
    /\ statusCall' = None
    /\ updatingStatus' = FALSE
    /\ autoPut' = None
    /\ AutoUpdateEffect
    /\ UNCHANGED <<deviceGeo, driverData, fetchPc, loading, error, notDriver>>

\* PUT /drivers/{id}/status is rejected.
StatusReject ==
    /\ statusCall # None
    /\ statusCall' = None
    /\ updatingStatus' = FALSE
    /\ error' = "status"
    /\ autoPut' = None
    /\ UNCHANGED <<deviceGeo, serverStatus, driverStatus, locationSharing,
                   driverData, fetchPc, shareTimer, positionRequests, loading,
                   notDriver>>

\* The 2 min interval fires: updateLocation().
ShareTimerFire ==
    /\ shareTimer
    /\ positionRequests < MaxRequests
    /\ positionRequests' = IF deviceGeo THEN positionRequests + 1
                           ELSE positionRequests
    /\ autoPut' = None
    /\ UNCHANGED <<deviceGeo, serverStatus, driverStatus, locationSharing,
                   driverData, fetchPc, statusCall, updatingStatus, shareTimer,
                   loading, error, notDriver>>

\* The success callback of getCurrentPosition: api.put("/drivers/me/location",
\* ...), whatever the state cells hold by now.
PositionCallback(on, st) == Some([sharing |-> on, status |-> st])

\* The device delivers a position.
PositionDelivered ==
    /\ positionRequests > 0
    /\ positionRequests' = positionRequests - 1
    /\ autoPut' = PositionCallback(locationSharing, driverStatus)
    /\ UNCHANGED <<deviceGeo, serverStatus, driverStatus, locationSharing,
                   driverData, fetchPc, statusCall, updatingStatus, shareTimer,
                   loading, error, notDriver>>

\* The device reports an error: console.error only.
PositionFailed ==
    /\ positionRequests > 0
    /\ positionRequests' = positionRequests - 1
    /\ autoPut' = None
    /\ UNCHANGED <<deviceGeo, serverStatus, driverStatus, locationSharing,
                   driverData, fetchPc, statusCall, updatingStatus, shareTimer,
                   loading, error, notDriver>>

NextDriver ==
    \/ FetchMeResolve
    \/ FetchRestResolve
    \/ FetchReject
    \/ ToggleSharing
    \/ ClickStatus
    \/ StatusResolve
    \/ StatusReject
    \/ ShareTimerFire
    \/ PositionDelivered
    \/ PositionFailed

SpecDriver == DriverInit /\ [][NextDriver]_vars

\* ======================================================================
\* Claims
\* ======================================================================
Periodic == {"ticker", "tick"}
ByMap == {"tick", "manual"}

\* C1: once the TrackingMap is torn down both intervals are cleared, and a
\* ticker or refresh-tick callback runs only at a moment the view is mounted,
\* however much time passes afterwards.
Thm_C1 ==
    [][ /\ (ev'.kind \in Periodic => tmMounted)
        /\ (~tmMounted' => ~tickerTimer' /\ ~refreshTimer') ]_vars

\* C1 witness: TrackShipment showed an in-transit shipment (so both intervals
\* ran), the page was left, and time has passed since.
Wit_C1 ==
    /\ host = "TrackShipment"
    /\ ~hostMounted
    /\ shipment = "in_transit" /\ ~loading /\ error = ""
    /\ ev.kind = "advance"

\* C2 as claimed: when autoRefresh goes from true to false on a view that
\* stays mounted, both intervals are released.
Orig_C2 ==
    [][ (tmMounted /\ autoRefresh /\ tmMounted' /\ ~autoRefresh')
            => (~refreshTimer' /\ ~tickerTimer') ]_vars

\* C2 amended: when autoRefresh goes from true to false on a view that stays
\* mounted, the 30 s refresh interval is released at once (no remount) and no
\* refresh tick fires while autoRefresh is false; the 1 s staleness ticker is
\* not released, it stays armed for as long as the view is mounted.
Thm_C2 ==
    [][ /\ (tmMounted /\ autoRefresh /\ tmMounted' /\ ~autoRefresh')
              => (~refreshTimer' /\ tickerTimer')
        /\ (ev'.kind = "tick" => autoRefresh)
        /\ (tmMounted' => tickerTimer') ]_vars

\* C2 witness: the parent has just switched autoRefresh off on a mounted view.
Wit_C2 ==
    /\ ev.kind = "autoOff"
    /\ tmMounted /\ ~autoRefresh /\ hasOnRefresh
    /\ tickerTimer /\ ~refreshTimer

\* C3: TrackingMap calls onRefresh only from the refresh tick, at a moment
\* when autoRefresh is on and onRefresh is supplied, or from a click on the
\* refresh button; the staleness ticker starts no call and touches no host
\* state; every call attributed to the map was started by such a step.
Thm_C3 ==
    [][ /\ (ev'.kind = "tick" => tmMounted /\ autoRefresh /\ hasOnRefresh)
        /\ (ev'.kind = "manual" => tmMounted /\ hasOnRefresh)
        /\ (ev'.kind = "ticker" => calls' = calls /\ started' = started
                                   /\ hostVars' = hostVars)
        /\ \A c \in calls' \ calls :
              (c.id = started' /\ started' # started /\ c.by \in ByMap)
                  => ev'.kind = c.by ]_vars

\* C3 witness: a tick-started and a click-started call are both in flight.
Wit_C3 ==
    \E c1 \in calls, c2 \in calls : c1.by = "tick" /\ c2.by = "manual"

\* C4 as claimed: the refresh tick leaves the baseline alone while its fetch
\* is in flight, and the baseline is set to now when that fetch completes.
Orig_C4 ==
    [][ /\ (ev'.kind = "tick" /\ ev'.call \in calls' /\ tmMounted')
              => lastRefresh' = lastRefresh
        /\ (ev'.kind \in {"resolve", "reject"} /\ ev'.call.by = "tick"
              /\ ev'.call \notin calls' /\ tmMounted')
              => lastRefresh' = now' ]_vars

\* C4 amended: on a refresh tick the baseline is set to now in the tick
\* itself, right after onRefresh is called and before the fetch completes,
\* whatever the outcome of the fetch; the completion (success or failure) of a
\* fetch does not change the baseline of a view that stays mounted; and the
\* tick leaves the staleness ticker armed on a view that stays mounted.
Thm_C4 ==
    [][ /\ (ev'.kind = "tick" /\ tmMounted')
              => (lastRefresh' = now' /\ tickerTimer')
        /\ (ev'.kind \in {"resolve", "reject"} /\ tmMounted /\ tmMounted')
              => lastRefresh' = lastRefresh ]_vars

\* C4 witness: a tick has just fired on a view whose displayed staleness was
\* positive; its fetch is in flight and the baseline is already now.
Wit_C4 ==
    /\ ev.kind = "tick" /\ ev.call \in calls
    /\ tmMounted /\ ticker > 0 /\ lastRefresh = now

\* C5: right after a click on the refresh button the baseline is now, with
\* autoRefresh on or off (on a view the click leaves mounted).
Thm_C5 ==
    (ev.kind = "manual" /\ tmMounted) => lastRefresh = now

\* C5 witness: a click with autoRefresh off, on a view whose displayed
\* staleness was positive.
Wit_C5 ==
    /\ ev.kind = "manual" /\ tmMounted /\ ~autoRefresh
    /\ ticker > 0 /\ lastRefresh = now

HostPages == Hosts \ {"Caller"}

\* C6 as claimed: in every host page, when a refresh started by the map
\* fails, what the page showed when the refresh started is not blanked: a
\* shipment is still held if one was, and a snapshot if one was.
Claim_C6 ==
    (ev.kind = "reject" /\ ev.call.by \in ByMap /\ host \in HostPages /\ hostMounted)
        => /\ (ev.call.shown.sh # Null => shipment # Null)
           /\ (ev.call.shown.td # NoSnapshot => trackingData # NoSnapshot)

\* C7 as claimed: in every host page, after a tick-started refresh has
\* failed on a shipment that is in transit as far as the page knows (it was
\* when the refresh started and no response has said otherwise), the view is
\* mounted with both intervals armed, so the next tick calls onRefresh again.
Claim_C7 ==
    ( /\ ev.kind = "reject" /\ ev.call.by = "tick"
      /\ host \in HostPages /\ hostMounted
      /\ ev.call.shown.sh = "in_transit"
      /\ shipment \in {Null, "in_transit"} )
        => (tmMounted /\ tickerTimer /\ refreshTimer)

\* C8: responses are applied in order of completion: a route response that
\* arrives at a mounted page becomes the snapshot held, whichever call started
\* first; no other step changes the snapshot, except that handleTrack blanks
\* it when it starts.
Thm_C8 ==
    [][ IF ev'.kind = "resolve" /\ ev'.call.pc = "route" /\ hostMounted
        THEN trackingData' = ev'.call.id
        ELSE \/ trackingData' = trackingData
             \/ /\ host = "PublicTracking"
                /\ ev'.kind \in {"tick", "manual", "submit"}
                /\ trackingData' = NoSnapshot ]_vars

\* C8 witness: a tick-started fetch has completed last, after a fetch that
\* was started later (by a click) had completed: the snapshot of the later
\* call was shown, and the earlier call's snapshot has replaced it.
Wit_C8 ==
    /\ calls = {}
    /\ ev.kind = "resolve" /\ ev.call.by = "tick"
    /\ ev.prev > ev.call.id
    /\ trackingData = ev.call.id

\* ------------------------------------------------------------ SpecMap claims
Live == {i \in 1..Len(drawn) : drawn[i].role = "live"}
Built == phase = "built" /\ snap # None

\* C9: the live-position marker of a drawn map stands at current_location
\* when that is present, otherwise at the last element of route when route is
\* not empty, and otherwise there is none; without current_location and with
\* an empty route no live marker is ever emitted; no marker stands at (0,0).
Thm_C9 ==
    Built =>
      LET t == snap[1] IN
      /\ (drawn # <<>> /\ t.current_location # None)
            => \E i \in Live : /\ Live = {i}
                               /\ drawn[i].type = "marker"
                               /\ drawn[i].pts = <<Pos(t.current_location[1])>>
      /\ (drawn # <<>> /\ t.current_location = None /\ Len(t.route) > 0)
            => \E i \in Live : /\ Live = {i}
                               /\ drawn[i].type = "marker"
                               /\ drawn[i].pts = <<Pos(t.route[Len(t.route)])>>
      /\ (t.current_location = None /\ Len(t.route) = 0) => Live = {}
      /\ \A i \in 1..Len(drawn) :
            drawn[i].type = "marker" => drawn[i].pts # <<(<<0, 0>>)>>

\* C9 witness: no current_location, a route of two or more samples that ends
\* elsewhere than it starts, and the live marker on its last sample.
Wit_C9 ==
    /\ Built
    /\ snap[1].current_location = None
    /\ Len(snap[1].route) >= 2
    /\ Pos(snap[1].route[1]) # Pos(snap[1].route[Len(snap[1].route)])
    /\ \E i \in Live : drawn[i].pts = <<Pos(snap[1].route[Len(snap[1].route)])>>

\* C10 as claimed: a speed is reported only if the resolved sample has one,
\* and it is then that sample's speed (rounded to whole km/h), in the panel
\* as in the marker's popup.
Orig_C10 ==
    (phase # "new" /\ snap # None) =>
      LET r == currentPos(snap[1]) IN
      /\ panel.speed # None
            => (r # None /\ r[1].speed # None
                /\ panel.speed = Some(ToFixed0(r[1].speed[1])))
      /\ \A i \in Live :
            drawn[i].speed # None
            => (r # None /\ r[1].speed # None
                /\ drawn[i].speed = Some(ToFixed0(r[1].speed[1])))

\* C10 amended: the popup of the live marker shows the speed of the resolved
\* sample itself, when that speed is not zero.  The Speed stat of the panel
\* shows the speed of current_location when current_location is present and
\* carries a speed, and otherwise (also when current_location is present but
\* carries no speed) the speed of the last route sample; a speed of zero is
\* shown as absent; speeds are shown rounded to whole km/h.
Thm_C10 ==
    (phase # "new" /\ snap # None) =>
      LET t == snap[1]
          cl == t.current_location
          n == Len(t.route)
          ownSpeed == cl # None /\ cl[1].speed # None
          src == IF ownSpeed THEN cl[1].speed
                 ELSE IF n > 0 THEN t.route[n].speed ELSE None
      IN
      /\ IF src # None /\ src[1] # 0
         THEN panel.speed = Some(ToFixed0(src[1]))
         ELSE panel.speed = None
      /\ \A i \in Live :
            LET own == IF cl # None THEN cl[1].speed ELSE t.route[n].speed IN
            IF own # None /\ own[1] # 0
            THEN drawn[i].speed = Some(ToFixed0(own[1]))
            ELSE drawn[i].speed = None

\* C10 witness: current_location is present without a speed, the last route
\* sample has one, and the panel shows the route sample's speed while the
\* popup of the live marker shows none.
Wit_C10 ==
    /\ Built
    /\ snap[1].current_location # None
    /\ snap[1].current_location[1].speed = None
    /\ Len(snap[1].route) > 0
    /\ snap[1].route[Len(snap[1].route)].speed = Some(405)
    /\ panel.speed = Some(41)
    /\ \E i \in Live : drawn[i].speed = None

\* C11 as claimed: the Last Ping stat of the panel and the time line of the
\* popup show the timestamp of the resolved sample (current_location when
\* present, otherwise the last route sample), and are empty only when no
\* position is resolvable or the resolved sample has no timestamp.
Claim_C11 ==
    Built =>
      LET r == currentPos(snap[1])
          stamp == IF r # None THEN r[1].timestamp ELSE None
      IN  /\ panel.ping = stamp
          /\ \A i \in Live : drawn[i].time = stamp

Valid(o) == o # None /\ o[1].lat # None

\* C12 as claimed: when the origin or the destination is missing or lacks a
\* finite lat, no marker and no line is emitted; and every snapshot whose
\* origin and destination have lat and lng in range, lat = 0 and lng = 0
\* included, is rendered with its origin and destination markers.
Claim_C12 ==
    Built =>
      LET t == snap[1] IN
      /\ (~Valid(t.origin) \/ ~Valid(t.destination)) => drawn = <<>>
      /\ (Valid(t.origin) /\ Valid(t.destination))
            => /\ \E i \in 1..Len(drawn) :
                    /\ drawn[i].type = "marker" /\ drawn[i].role = "origin"
                    /\ drawn[i].pts = <<EndPos(t.origin)>>
               /\ \E i \in 1..Len(drawn) :
                    /\ drawn[i].type = "marker" /\ drawn[i].role = "destination"
                    /\ drawn[i].pts = <<EndPos(t.destination)>>

\* The primitives of the map without their popups.
Shapes == {[type |-> drawn[i].type, role |-> drawn[i].role, pts |-> drawn[i].pts] :
              i \in 1..Len(drawn)}

\* C13 as claimed: for a snapshot whose origin and destination are valid the
\* primitives are exactly the origin marker, the destination marker, the
\* straight line between the two, the polyline through every route sample in
\* the given order if and only if the route has two samples or more, and the
\* live marker if and only if a current position is resolvable.
Claim_C13 ==
    (Built /\ Valid(snap[1].origin) /\ Valid(snap[1].destination)) =>
      LET t == snap[1]
          o == EndPos(t.origin)
          d == EndPos(t.destination)
          n == Len(t.route)
          path == IF n >= 2
                  THEN {[type |-> "line", role |-> "route",
                         pts |-> [i \in 1..n |-> <<t.route[i].lat, t.route[i].lng>>]]}
                  ELSE {}
          live == IF t.current_location # None
                  THEN {[type |-> "marker", role |-> "live",
                         pts |-> <<Pos(t.current_location[1])>>]}
                  ELSE IF n > 0
                       THEN {[type |-> "marker", role |-> "live",
                              pts |-> <<Pos(t.route[n])>>]}
                       ELSE {}
          fixed == {[type |-> "marker", role |-> "origin", pts |-> <<o>>],
                    [type |-> "marker", role |-> "destination", pts |-> <<d>>],
                    [type |-> "line", role |-> "direct", pts |-> <<o, d>>]}
      IN  /\ Shapes = fixed \cup path \cup live
          /\ Len(drawn) = Cardinality(fixed \cup path \cup live)

\* The latitudes and the longitudes of origin, destination and every route
\* sample of the snapshot.
AllLats(t) == {t.origin[1].lat[1], t.destination[1].lat[1]}
              \cup {t.route[i].lat : i \in 1..Len(t.route)}
AllLngs(t) == {t.origin[1].lng, t.destination[1].lng}
              \cup {t.route[i].lng : i \in 1..Len(t.route)}

\* C14: the bounds the map is fitted to are the componentwise minimum and
\* maximum of lat and lng over the origin, the destination and every route
\* sample, and they are fitted whenever the map is drawn; without route
\* samples they are the minimum and maximum of the two endpoints.
Thm_C14 ==
    Built =>
      /\ (view # None) <=> (drawn # <<>>)
      /\ view # None =>
           LET t == snap[1]
               b == view[1]
           IN  /\ b.min[1] \in AllLats(t) /\ \A x \in AllLats(t) : b.min[1] <= x
               /\ b.min[2] \in AllLngs(t) /\ \A x \in AllLngs(t) : b.min[2] <= x
               /\ b.max[1] \in AllLats(t) /\ \A x \in AllLats(t) : b.max[1] >= x
               /\ b.max[2] \in AllLngs(t) /\ \A x \in AllLngs(t) : b.max[2] >= x
               /\ Len(t.route) = 0 =>
                    /\ b.min[1] \in {t.origin[1].lat[1], t.destination[1].lat[1]}
                    /\ b.max[2] \in {t.origin[1].lng, t.destination[1].lng}

\* C14 witness: origin (-1.0, 36.0) and destination (-1.5, 36.9) without
\* route samples are fitted to min (-1.5, 36.0), max (-1.0, 36.9).
Wit_C14 ==
    /\ Built
    /\ snap[1].origin = Some([lat |-> Some(-10), lng |-> 360])
    /\ snap[1].destination = Some([lat |-> Some(-15), lng |-> 369])
    /\ snap[1].route = <<>>
    /\ view = Some([min |-> <<-15, 360>>, max |-> <<-10, 369>>])

Rendered == phase # "new"

\* The snapshot fields the timeline is derived from (all absent without a
\* snapshot).
Given == IF snap = None THEN Blank ELSE snap[1]

\* C15: the timeline has exactly the four steps Created, Assigned, Transit,
\* Delivered in this order; a step is completed iff its timestamp field
\* (created_at, assigned_at, picked_up_at, delivered_at) is present; a step
\* is active iff the status is pending, assigned, in_transit respectively;
\* Delivered is never active; at most one step is active, and none is for
\* the status cancelled or an unknown one.
Thm_C15 ==
    Rendered =>
      LET tl == panel.timeline
          g == Given
          field == <<g.created_at, g.assigned_at, g.picked_up_at, g.delivered_at>>
          when == <<"pending", "assigned", "in_transit">>
      IN  /\ Len(tl) = 4
          /\ [i \in 1..4 |-> tl[i].label]
                = <<"Created", "Assigned", "Transit", "Delivered">>
          /\ \A i \in 1..4 : /\ tl[i].done <=> (field[i] # None)
                             /\ tl[i].time = field[i]
          /\ \A i \in 1..3 : tl[i].active <=> (g.status = Some(when[i]))
          /\ ~tl[4].active
          /\ Cardinality({i \in 1..4 : tl[i].active}) <= 1
          /\ g.status \in {None, Some("cancelled"), Some("returned"),
                           Some("constructor"), Some("delivered")}
                => \A i \in 1..4 : ~tl[i].active

\* C15 witness: only created_at is set and the status is pending: Created is
\* completed and active, the three other steps are neither.
Wit_C15 ==
    /\ Rendered
    /\ snap # None
    /\ snap[1].status = Some("pending")
    /\ snap[1].created_at # None /\ snap[1].assigned_at = None
    /\ snap[1].picked_up_at = None /\ snap[1].delivered_at = None
    /\ panel.timeline[1].done /\ panel.timeline[1].active
    /\ \A i \in 2..4 : ~panel.timeline[i].done /\ ~panel.timeline[i].active

\* C16 as claimed: each of pending, assigned, in_transit, delivered and
\* cancelled has its own style, and every other status, unknown or absent,
\* has the style of pending.
Claim_C16 ==
    Rendered =>
      LET st == Given.status IN
      IF st # None /\ st[1] \in {"pending", "assigned", "in_transit",
                                 "delivered", "cancelled"}
      THEN panel.style = Some([style |-> st[1]])
      ELSE panel.style = Some([style |-> "pending"])

\* ----------------------------------------------------------- SpecCost claims
\* The argument is a number, or the text of one, greater than zero.
Positive(v) == v.is \in {"number", "text"} /\ v.n > 0

\* C17: for a positive distance d and a positive weight w the result is
\* round(200 + distCost + surcharge), with distCost = 50 d up to 10 km,
\* 500 + 40 (d - 10) up to 50 km, 2100 + 30 (d - 50) beyond, and
\* surcharge = 2 (w - 20) above 20 kg, else 0; it is 700 for (10, 20),
\* 2300 for (50, 20) and 2620 for (60, 30).
Thm_C17 ==
    (quote # <<>> /\ Positive(args[1]) /\ Positive(args[2])) =>
      LET d == args[1].n
          w == args[2].n
          dc == IF d <= 1000 THEN 50 * d
                ELSE IF d <= 5000 THEN 50000 + 40 * (d - 1000)
                ELSE 210000 + 30 * (d - 5000)
          sc == IF w > 200 THEN 20 * (w - 200) ELSE 0
          \* twice the sum, to round halves upwards in whole numbers
          twice == 2 * (20000 + dc + sc)
      IN  /\ quote[1].is = "number"
          /\ 200 * quote[1].n - 100 <= twice
          /\ twice < 200 * quote[1].n + 100
          /\ (d = 1000 /\ w = 200) => quote[1].n = 700
          /\ (d = 5000 /\ w = 200) => quote[1].n = 2300
          /\ (d = 6000 /\ w = 300) => quote[1].n = 2620

\* C17 witness: 60 km and 30 kg cost 2620.
Wit_C17 ==
    /\ args = <<Num(6000), Num(300)>>
    /\ quote = <<Num(2620)>>

\* The argument is missing: null, undefined or the empty string.
Missing(v) == v.is \in {"null", "empty"}

\* The argument is a number, or the text of one, that is zero or negative.
NonPositive(v) == v.is \in {"number", "text"} /\ v.n <= 0

\* C18 as claimed: the result is absent whenever either argument is missing
\* or is zero or negative, as a number or as the numeric text the form
\* passes; it is a number only when both arguments are greater than zero.
Claim_C18 ==
    quote # <<>> =>
      /\ (\E i \in 1..2 : Missing(args[i]) \/ NonPositive(args[i]))
            => quote[1] = JsNull
      /\ quote[1].is = "number" => (Positive(args[1]) /\ Positive(args[2]))

\* ----------------------------------------------------------- SpecForm claims
\* What the form shows: the distance line of step 2 ({distKm && ...}), and
\* the estimate card of step 3 ({costKsh ? ...}), which shows both values.
CostShown == step = 3 /\ ~Falsy(costKsh)
DistanceShown == (step = 2 /\ ~Falsy(distKm)) \/ CostShown

\* The field holds the text of a number.
Numeric(v) == v.is = "text"

\* C19 as claimed: after any edits a distance preview is shown only if all
\* four coordinates are set and numeric, and a cost preview only if the
\* weight, too, is set and valid (greater than 0, at most 10,000 kg).
Claim_C19 ==
    step > 0 =>
      /\ DistanceShown =>
            /\ Numeric(form.origin_latitude) /\ Numeric(form.origin_longitude)
            /\ Numeric(form.destination_latitude)
            /\ Numeric(form.destination_longitude)
      /\ CostShown =>
            /\ Numeric(form.weight_kg)
            /\ form.weight_kg.n > 0 /\ form.weight_kg.n <= 100000

\* C20: after any edits of the coordinates and the weight the cost shown is
\* previewCost of the distance between the coordinates the fields hold now
\* and of the weight the field holds now; no cost is shown that was computed
\* from other values.
Thm_C20 ==
    step > 0 =>
      LET f == form
          complete == /\ Numeric(f.origin_latitude) /\ Numeric(f.origin_longitude)
                      /\ Numeric(f.destination_latitude)
                      /\ Numeric(f.destination_longitude)
          d == IF complete
               THEN Str(haversine(f.origin_latitude.n, f.origin_longitude.n,
                                  f.destination_latitude.n,
                                  f.destination_longitude.n))
               ELSE JsNull
      IN  /\ ~Falsy(costKsh) => (complete /\ costKsh = previewCost(d, f.weight_kg))
          /\ (DistanceShown /\ complete) => distKm = d

\* C20 witness: on step 3 the estimate card shows the cost of 111.19 km and
\* 20.5 kg.
Wit_C20 ==
    /\ CostShown
    /\ form.weight_kg = Str(205)
    /\ distKm = Str(11119)
    /\ costKsh = Num(4137)

\* ------------------------------------------------------- SpecLocation claims
\* C21: a failed location request shows a message of its own for each of
\* permission denied, position unavailable and timeout, different from the
\* message of an unknown error and of an unsupported browser; and after
\* every failure gettingLocation is false.
Thm_C21 ==
    [][ /\ reasons' # reasons
            => /\ \E p \in reasons' \ reasons : locationError' = p[2]
               /\ ~gettingLocation'
        /\ \A p \in reasons', q \in reasons' \cup {<<"UNSUPPORTED", UnsupportedMessage>>} :
              p[1] # q[1] => p[2] # q[2]
        /\ gettingLocation' <=> geoRequest' ]_vars

\* C21 witness: all four error causes have occurred, the last one shows its
\* message, and no request is in flight.
Wit_C21 ==
    /\ Cardinality(reasons) = 4
    /\ locationError = "Location request timed out."
    /\ ~gettingLocation

\* ------------------------------------------------------- SpecDistance claims
\* C22: the distance from a to b equals the distance from b to a, and the
\* distance from a point to itself is 0.
Thm_C22 ==
    quote # <<>> =>
      /\ quote[1].ab = quote[1].ba
      /\ quote[1].aa = 0
      /\ quote[1].bb = 0

\* C22 witness: two points that differ in latitude and in longitude, at
\* different latitudes, are as far from each other in either direction.
Wit_C22 ==
    /\ quote # <<>>
    /\ args[1].lat # args[2].lat
    /\ args[1].lng # args[2].lng
    /\ quote[1].ab > 0
    /\ quote[1].ab = quote[1].ba

\* --------------------------------------------------------- SpecPublic claims
\* C23 as claimed: when the page is opened with a non-empty number parameter,
\* the first render mounts the page with the tracking number set to that
\* value and a track request for it under way, with no user action.
Claim_C23 ==
    (ev.kind = "mount" /\ HasNumber(search)) =>
      /\ page = "mounted"
      /\ trackingNumber = search[1]
      /\ loading
      /\ \E c \in calls : c.fn = "handleTrack"

\* C24: whatever is edited and clicked, the step stays among 1, 2 and 3; a
\* handler passes the form to onSubmit only at step 3 and only when the form
\* then passes validateStep for steps 1, 2 and 3; and the step advances only
\* when the form passes validateStep for the step it leaves (a failed
\* validation leaves the step as it is).
Thm_C24 ==
    [][/\ step' \in {1, 2, 3}
       /\ sent' # <<>> =>
             /\ step = 3 /\ step' = 3
             /\ \A s \in {1, 2, 3} : validateStep(s, form) = {}
       /\ step' > step => validateStep(step, form) = {}
       /\ (step' = step /\ form' = form /\ errors' # {} /\ errors' # errors) =>
             (errors' = validateStep(step, form) /\ sent' = <<>>)]_vars

\* C24 witness: the form has been passed to onSubmit.
Wit_C24 ==
    /\ step = 3
    /\ sent # <<>>
    /\ sent[1].weight_kg = Num(205)
    /\ PhoneTest(sent[1].recipient_phone)


\* -------------------------------------------------------- SpecRefresh claims
\* C25 as claimed: while TrackingMap is mounted with autoRefresh on and an
\* onRefresh supplied, never more than 30 seconds pass since the last refresh
\* tick (or since auto-refresh was activated), however often the parent
\* renders again and whatever function it passes as onRefresh.
Claim_C25 ==
    (tmMounted /\ autoRefresh /\ hasOnRefresh) => clock - lastTick <= Period


\* ---------------------------------------------------------- SpecBuild claims
\* The snapshot has an origin and a destination with a lat.
Sufficient(t) == Truthy(OptLat(t.origin)) /\ Truthy(OptLat(t.destination))

\* C26 as claimed: once no call of buildMap is pending there is at most one
\* map instance, and a map instance that exists was built from the
\* trackingData passed last, which has sufficient data, in a view that has
\* not been torn down.
Claim_C26 ==
    builds = <<>> =>
      /\ Cardinality(instances) <= 1
      /\ \A i \in instances :
            /\ tmMounted
            /\ snap # None
            /\ i.from = snap[1]
            /\ Sufficient(snap[1])


\* ----------------------------------------------------------- SpecHost claims
\* The roles of the markers on the map.
MarkerRoles == {drawn[i].role : i \in {j \in 1..Len(drawn) : drawn[j].type = "marker"}}

\* C27 as claimed: in the three host pages, once a shipment with valid
\* origin and destination coordinates is loaded and the map view has been
\* rendered and built, TrackingMap has received a snapshot (it does not show
\* the placeholder) and the origin and destination markers are on the map.
Claim_C27 ==
    (host \in HostPages /\ shipment # None /\ tmMounted /\ phase = "built") =>
      /\ snap # None
      /\ {"origin", "destination"} \subseteq MarkerRoles


\* ------------------------------------------------------------ SpecMap, C28
\* The point lies within the bounds, corners included.
Inside(p, b) ==
    /\ b.min[1] <= p[1] /\ p[1] <= b.max[1]
    /\ b.min[2] <= p[2] /\ p[2] <= b.max[2]

\* C28 as claimed: every marker of a built map, the live-position marker
\* included, stands within the bounds the map was fitted to, also when the
\* live position is current_location and no route sample lies there.
Claim_C28 ==
    (phase = "built" /\ view # None) =>
      \A i \in 1..Len(drawn) :
         drawn[i].type = "marker" => Inside(drawn[i].pts[1], view[1])


\* ----------------------------------------------------------- SpecCost, C29
\* previewCost of a distance (hundredths of a km) and a weight (tenths of a
\* kg), in KSH.
Cost(d, w) == previewCost(Num(d), Num(w)).n

\* C29: for a positive distance d and a positive weight w the cost is at
\* least 200; no greater distance with the same weight and no greater weight
\* with the same distance costs less; and the cost grows by no more than 50
\* KSH per km and 2 KSH per kg (plus the rounding to whole KSH), so it makes
\* no jump at 10 km, 50 km or 20 kg.
Thm_C29 ==
    (quote # <<>> /\ Positive(args[1]) /\ Positive(args[2])) =>
      LET d == args[1].n
          w == args[2].n
          c == quote[1].n
      IN  /\ quote[1].is = "number"
          /\ c >= 200
          /\ \A d2 \in {x \in Dists : x >= d} :
                /\ Cost(d2, w) >= c
                /\ 100 * (Cost(d2, w) - c) <= 50 * (d2 - d) + 100
          /\ \A w2 \in {x \in Weights : x >= w} :
                /\ Cost(d, w2) >= c
                /\ 100 * (Cost(d, w2) - c) <= 20 * (w2 - w) + 100

\* C29 witness: the call at the boundary of 50 km and 20 kg; a hundredth of
\* a km more costs no less and at most 1 KSH more.
Wit_C29 ==
    /\ args = <<Num(5000), Num(200)>>
    /\ quote = <<Num(2300)>>
    /\ Cost(5001, 200) >= 2300
    /\ Cost(5001, 200) <= 2301
    /\ Cost(5000, 205) >= 2300


\* --------------------------------------------------------- SpecDriver claims
\* C30 as claimed: an automatic location update is sent only while location
\* sharing is on and the status is on_duty, also when the device-position
\* request it answers was started earlier; and location sharing is never on
\* while the status is off_duty.
Claim_C30 ==
    /\ autoPut # None =>
          (autoPut[1].sharing /\ autoPut[1].status = "on_duty")
    /\ ~(locationSharing /\ driverStatus = "off_duty")

====
